---------------------------- MODULE Spec2Model ----------------------------
(***************************************************************************)
(* A model of the dead-click crawler (backend/core/click_tester.py and     *)
(* backend/utils/element_utils.py).                                        *)
(*                                                                         *)
(* The module holds eight specifications over one set of variables:        *)
(*   SpecDivide   - _divide_elements_into_batches applied to a list        *)
(*   SpecDiscover - the collection and de-duplication of descriptors in    *)
(*                  find_clickable_elements                                *)
(*   SpecBatch    - _test_element_batch driving                            *)
(*                  _test_element_click_with_driver in one browser session *)
(*   SpecRun      - TestService.run_and_report: the construction of the    *)
(*                  tester and run_comprehensive_test_concurrent with its  *)
(*                  driver pool and worker threads                         *)
(*   SpecSteps    - the steps of find_clickable_elements in their order,   *)
(*                  each with the exceptions its driver calls may raise    *)
(*                  (FairSteps: the same with the run going on)            *)
(*   SpecFind     - _find_element_by_info_with_driver trying its           *)
(*                  strategies on one descriptor                           *)
(*   SpecDeep     - DeepCrawler.recursive_scan (backend/core/              *)
(*                  deep_crawler.py) on a page of nested iframes           *)
(*                  (FairDeep: the same with the run going on)             *)
(* A specification leaves the variables of the others at their idle        *)
(* values.  Python strings are TLA+ strings; str operations are written    *)
(* out character by character below.                                       *)
(***************************************************************************)
EXTENDS Integers, Sequences, FiniteSets, TLC

VARIABLES
    \* _divide_elements_into_batches
    elements,            \* the list handed to the function
    num_batches,         \* the number of batches asked for
    batches,             \* the list of batches returned
    dividePc,            \* "call" | "returned"
    \* find_clickable_elements
    clickable_elements,  \* the unioned list of descriptors
    seen_elements,       \* self.seen_elements: fingerprints already extracted
    extracted,           \* history: the descriptors the extraction has returned
    deduplicated_elements, \* what advanced_deduplication returned (line 707)
    final_elements,      \* the list find_clickable_elements returns
    unique_ids,          \* the fingerprints of final_elements
    fallback_elements,   \* the DOM elements the fallback scan still has to extract
    discPc,              \* "scan" | "fallback" | "returned" | "idle"
    \* _test_element_batch / _test_element_click_with_driver
    batch,               \* the descriptors of the batch
    batch_results,       \* the outcomes appended so far
    i,                   \* index (from 1) of the element under test
    pc,                  \* position of the worker in the two functions
    page,                \* the browser session: url, title, body content, modal
    dom,                 \* the DOM node the descriptor denotes: present/displayed/enabled
    result,              \* the result dict under construction
    initial,             \* initial_url, initial_title, dom_hash_before
    attempt,             \* location attempts made
    element,             \* the handle the last attempt returned, or None
    dom_changed,         \* verdict of the bounded wait
    env,                 \* exceptions raised and page changes made in the run so far
    hist,                \* history of the element test: clicks made, effects of the click
    \* TestService.run_and_report / run_comprehensive_test_concurrent
    max_workers,         \* self.max_workers
    driver,              \* self.driver, the discovery session: "none" | "open"
    found_elements,      \* the local clickable_elements of the run (line 1056)
    driver_pool,         \* the local driver_pool: NoPool until line 1058 assigns it
    quit_called,         \* the pooled sessions quit() was called on
    quit_raised,         \* history: the pooled sessions whose quit() raised
    run_batches,         \* the local batches (line 1061)
    test_results,        \* the local test_results dict, NoReport until line 1065
    futures,             \* one entry per submitted batch: state, position, outcomes
    touched,             \* history: (session, batch id, descriptor) of every test
    exc,                 \* the exception on its way to line 1113, None without
    runPc,               \* position of the coordinating thread
    report,              \* what run_and_report returned, None before
    \* find_clickable_elements, step by step
    stepPc,              \* the step about to run, "returned" or "raised"
    step_log,            \* history: the steps in the order they ran, with result
    height,              \* _scroll_to_bottom: document height still to be loaded;
                         \* below 0 for a page that loads more at every scroll
    iframes,             \* the iframes still to be scanned
    context,             \* the frame context of the session: "top" | "iframe"
    step_found,          \* the steps that have added a descriptor to the list
    revealed,            \* the DOM holds what the deep interaction scan revealed
    \* _find_element_by_info_with_driver
    find_info,           \* the descriptor to locate
    find_pc,             \* the strategy about to run (1..8), 9 at line 345, 10 returned
    find_log,            \* history: the strategies in the order they ran, with result
    find_answer,         \* what the driver answered to the last search
    find_result,         \* the element returned, NotLocated for None
    \* DeepCrawler.recursive_scan
    deep_page,           \* the iframes of each document of the page, in order
    deep_stack,          \* the calls of recursive_scan in progress, outermost first
    deep_context,        \* the frame the session is switched to: the path of
                         \* iframe indexes from the top document
    deep_log,            \* history: each scan step with the frame it ran against
    deep_result          \* "running" | "returned" | "raised", None before the crawl

divideVars   == <<elements, num_batches, batches, dividePc>>
discoverVars == <<clickable_elements, seen_elements, extracted, deduplicated_elements,
                  final_elements, unique_ids, fallback_elements, discPc>>
batchVars    == <<batch, batch_results, i, pc, page, dom, result, initial, attempt,
                  element, dom_changed, env, hist>>
runVars      == <<max_workers, driver, found_elements, driver_pool, quit_called,
                  quit_raised, run_batches, test_results, futures, touched, exc,
                  runPc, report>>
stepVars     == <<stepPc, step_log, height, iframes, context, step_found, revealed>>
findVars     == <<find_info, find_pc, find_log, find_answer, find_result>>
deepVars     == <<deep_page, deep_stack, deep_context, deep_log, deep_result>>
vars == <<divideVars, discoverVars, batchVars, runVars, stepVars, findVars, deepVars>>

None == "None"

\* the empty dict, and the value of a local dict that is not assigned yet
EmptyDict == << >>
NoReport == << >>

\* the value of the local driver_pool while 'driver_pool' in locals() is false
\* (line 1115): a list that is no pool, the sessions being named from 1
NoPool == <<-1>>

-----------------------------------------------------------------------------
(* Bounds of the model. *)

\* longest list handed to _divide_elements_into_batches
MaxElements == 4
\* largest number of batches (size of the driver pool)
MaxWorkers == 3
\* longest unioned descriptor list of a discovery run
MaxDiscovered == 2
\* longest batch tested in one session
MaxBatch == 2
\* changes the page makes in one run, on its own or in answer to a click
MaxEffects == 2
\* driver calls that raise in one run
MaxFaults == 1
\* most iframes in one document of a page the DeepCrawler scans
MaxFrames == 2
\* most nodes the fallback scan collects
MaxFallback == 2
\* most descriptors the discovery of a run returns
MaxFound == 3
\* largest max_workers of a run
MaxSessions == 2
\* times the page grows while _scroll_to_bottom scrolls it
MaxGrowth == 2
\* most iframes of the page
MaxIframes == 2

-----------------------------------------------------------------------------
(* Python str and list operations. *)

Min(a, b) == IF a < b THEN a ELSE b

\* s[k] for 1 <= k <= Len(s), as a one-character string
CharAt(s, k) == SubSeq(s, k, k)

\* seq[a:b] with 0-based a, b and Python's clipping
Slice(seq, a, b) == SubSeq(seq, a + 1, Min(b, Len(seq)))

\* s.startswith(p)
StartsWith(s, p) == Len(s) >= Len(p) /\ SubSeq(s, 1, Len(p)) = p

\* p in s
Contains(s, p) ==
    \E k \in 0..(Len(s) - Len(p)) : SubSeq(s, k + 1, k + Len(p)) = p

\* s.count(c) for a one-character c
Count(s, c) == Cardinality({k \in 1..Len(s) : CharAt(s, k) = c})

\* s.replace(' ', ''), on the characters lo..hi (split in halves, which keeps
\* the evaluation shallow)
RECURSIVE StripSpacesRange(_, _, _)
StripSpacesRange(s, lo, hi) ==
    IF lo > hi THEN ""
    ELSE IF lo = hi THEN (IF CharAt(s, lo) = " " THEN "" ELSE CharAt(s, lo))
    ELSE LET mid == (lo + hi) \div 2
         IN  StripSpacesRange(s, lo, mid) \o StripSpacesRange(s, mid + 1, hi)
StripSpaces(s) == StripSpacesRange(s, 1, Len(s))

UpperCase == "ABCDEFGHIJKLMNOPQRSTUVWXYZ"
LowerCase == "abcdefghijklmnopqrstuvwxyz"

\* c.lower() for one character
LowerChar(c) ==
    IF \E k \in 1..Len(UpperCase) : CharAt(UpperCase, k) = c
    THEN CharAt(LowerCase, CHOOSE k \in 1..Len(UpperCase) : CharAt(UpperCase, k) = c)
    ELSE c

\* s.lower(), on the characters lo..hi
RECURSIVE LowerRange(_, _, _)
LowerRange(s, lo, hi) ==
    IF lo > hi THEN ""
    ELSE IF lo = hi THEN LowerChar(CharAt(s, lo))
    ELSE LET mid == (lo + hi) \div 2
         IN  LowerRange(s, lo, mid) \o LowerRange(s, mid + 1, hi)
Lower(s) == LowerRange(s, 1, Len(s))

\* a dict's d.get(key, default)
Get(d, key, default) == IF key \in DOMAIN d THEN d[key] ELSE default

\* the set of the members of a list
Range(seq) == {seq[k] : k \in DOMAIN seq}

\* the concatenation of a list of lists
RECURSIVE Flatten(_)
Flatten(bs) == IF bs = << >> THEN << >> ELSE Head(bs) \o Flatten(Tail(bs))

\* all sequences over S of length at most n
SeqsUpTo(S, n) == UNION {[1..k -> S] : k \in 0..n}

-----------------------------------------------------------------------------
(* _divide_elements_into_batches: click_tester.py lines 91-103. *)

\* line 97 with a remainder that no batch receives
CurrentBatchSizeNoRemainder(batch_size, remainder, k) == batch_size

\* line 97: batch_size + (1 if i < remainder else 0)
CurrentBatchSize(batch_size, remainder, k) ==
    batch_size + (IF k < remainder THEN 1 ELSE 0)

\* lines 96-102: the loop from iteration k on, start_idx and batches as they stand
RECURSIVE DivideLoop(_, _, _, _, _)
DivideLoop(elems, nb, k, start_idx, acc) ==
    IF k >= nb THEN acc
    ELSE LET batch_size == Len(elems) \div nb
             remainder == Len(elems) % nb
             end_idx == start_idx + CurrentBatchSize(batch_size, remainder, k)
             b == Slice(elems, start_idx, end_idx)
         IN  DivideLoop(elems, nb, k + 1, end_idx,
                        IF b # << >> THEN Append(acc, b) ELSE acc)

\* lines 92-102 without the test of line 100: empty batches are kept
DivideKeepingEmpty(elems, nb) ==
    LET batch_size == Len(elems) \div nb
        remainder == Len(elems) % nb
        start_of(k) == k * batch_size + Min(k, remainder)
    IN  [k \in 1..nb |-> Slice(elems, start_of(k - 1), start_of(k))]

DivideElementsIntoBatches(elems, nb) == DivideLoop(elems, nb, 0, 0, << >>)

IdleDivide ==
    /\ elements = << >>
    /\ num_batches = 1
    /\ batches = << >>
    /\ dividePc = "idle"

-----------------------------------------------------------------------------
(* DOM nodes and the descriptors extracted from them: element_utils.py.   *)
(* A node is a record of the attributes the extraction reads; an absent   *)
(* attribute is None, as get_attribute returns it.                        *)

\* value or '' : the `x or ''` idiom of the extraction
OrEmpty(v) == IF v = None THEN "" ELSE v

\* get_element_xpath, lines 142-159: the id form when the node has an id, else
\* the positional path from the body
GetElementXPath(n) ==
    IF n.id # "" THEN "//*[@id=\"" \o n.id \o "\"]" ELSE n.dompath

\* the characters Ord knows, in code order
Alphabet ==
    " !\"#$%&'()*+,-./0123456789:;<=>?@ABCDEFGHIJKLMNOPQRSTUVWXYZ[]^_abcdefghijklmnopqrstuvwxyz{|}~"

Ord(c) == CHOOSE k \in 1..Len(Alphabet) : CharAt(Alphabet, k) = c

\* 31^n modulo 32749
RECURSIVE PowMod(_)
PowMod(n) ==
    IF n = 0 THEN 1
    ELSE LET half == PowMod(n \div 2)
         IN  IF n % 2 = 0 THEN (half * half) % 32749
             ELSE (((half * half) % 32749) * 31) % 32749

\* the polynomial sum of the characters lo..hi modulo 32749 (split in halves,
\* which keeps the evaluation shallow for a long string)
RECURSIVE PolyRange(_, _, _)
PolyRange(s, lo, hi) ==
    IF lo > hi THEN 0
    ELSE IF lo = hi THEN Ord(CharAt(s, lo))
    ELSE LET mid == (lo + hi) \div 2
         IN  (PolyRange(s, lo, mid) * PowMod(hi - mid) + PolyRange(s, mid + 1, hi)) % 32749

\* hash(str): a string hash seeded per process (PYTHONHASHSEED); the same
\* string hashes to the same int within a run
PyHash(seed, s) == (seed * PowMod(Len(s)) + PolyRange(s, 1, Len(s))) % 32749

\* lines 193-198 with the locator path among the components
UniqueIdComponentsWithXPath(info) ==
    << Get(info, "tag_name", ""), Get(info, "id", ""), Get(info, "class_names", ""),
       Slice(Get(info, "text", ""), 0, 50), Get(info, "xpath", "") >>

\* create_unique_id, lines 193-198: the components that are joined
UniqueIdComponents(info) ==
    << Get(info, "tag_name", ""), Get(info, "id", ""), Get(info, "class_names", ""),
       Slice(Get(info, "text", ""), 0, 50) >>

\* '|'.join(components)
RECURSIVE JoinBar(_)
JoinBar(cs) ==
    IF cs = << >> THEN ""
    ELSE IF Len(cs) = 1 THEN cs[1]
    ELSE cs[1] \o "|" \o JoinBar(Tail(cs))

\* create_unique_id, lines 192-199; 7 is the hash seed of the process
CreateUniqueId(info) == PyHash(7, JoinBar(UniqueIdComponents(info)))

\* extract_element_info lines 24-30: is_clickable
IsClickable(n) ==
    \/ Lower(n.tag_name) \in {"a", "button", "input"}
    \/ OrEmpty(n.onclick) # ""
    \/ OrEmpty(n.role) = "button"
    \/ (n.tabindex # None /\ n.tabindex # "" /\ n.tabindex # "-1")
    \/ n.cursor = "pointer"

\* extract_element_info lines 13-48: the descriptor before the seen_elements test
\* (status_code, alt, css_selector, is_displayed, is_enabled are left out: no
\* modelled step reads them).  No href and no onclick key is stored.
ElementInfo(n) ==
    LET info == [tag_name    |-> Lower(n.tag_name),
                 text        |-> Slice(n.text, 0, 100),
                 class_names |-> OrEmpty(n.class),
                 id          |-> OrEmpty(n.id),
                 role        |-> OrEmpty(n.role),
                 xpath       |-> GetElementXPath(n)]
    IN  [k \in DOMAIN info \cup {"unique_id"} |->
            IF k = "unique_id" THEN CreateUniqueId(info) ELSE info[k]]

\* extract_element_info_for_hidden, lines 57-98 (and its copy in click_tester.py
\* lines 543-587): the carousel descriptor, which keeps href and onclick
ElementInfoForHidden(n) ==
    LET info == [tag_name    |-> n.tag_name,
                 text        |-> Slice(n.text, 0, 100),
                 class_names |-> OrEmpty(n.class),
                 id          |-> OrEmpty(n.id),
                 href        |-> OrEmpty(n.href),
                 onclick     |-> OrEmpty(n.onclick),
                 role        |-> OrEmpty(n.role),
                 xpath       |-> GetElementXPath(n),
                 is_carousel_element |-> TRUE]
    IN  [k \in DOMAIN info \cup {"unique_id"} |->
            IF k = "unique_id" THEN CreateUniqueId(info) ELSE info[k]]

-----------------------------------------------------------------------------
(* advanced_deduplication: element_utils.py lines 103-129. *)

\* the class-name marker of the special container, line 119
SpecialContainerClass == "variant-tabs__variant-list__item"

\* sorted(..., key=len(xpath)) is stable: x goes behind every entry whose key is
\* not larger
RECURSIVE InsertByXPathLen(_, _)
InsertByXPathLen(sorted, x) ==
    IF sorted = << >> THEN << x >>
    ELSE IF Len(Get(Head(sorted), "xpath", "")) <= Len(Get(x, "xpath", ""))
         THEN << Head(sorted) >> \o InsertByXPathLen(Tail(sorted), x)
         ELSE << x >> \o sorted

\* line 105
RECURSIVE SortedByXPathLen(_)
SortedByXPathLen(elems) ==
    IF elems = << >> THEN << >>
    ELSE InsertByXPathLen(SortedByXPathLen(SubSeq(elems, 1, Len(elems) - 1)),
                          elems[Len(elems)])

\* lines 124-126 with `and` for `or`
IsNestedDuplicateBoth(parent_candidate, child_candidate) ==
    /\ Get(parent_candidate, "text", None) \notin {None, ""}
    /\ Get(parent_candidate, "text", None) = Get(child_candidate, "text", None)
    /\ Get(parent_candidate, "class_names", None) \notin {None, ""}
    /\ Get(parent_candidate, "class_names", None) = Get(child_candidate, "class_names", None)

\* lines 124-126: has_same_text or has_same_class; an empty text or class is
\* falsy and matches nothing
IsNestedDuplicate(parent_candidate, child_candidate) ==
    LET has_same_text ==
            /\ Get(parent_candidate, "text", None) \notin {None, ""}
            /\ Get(parent_candidate, "text", None) = Get(child_candidate, "text", None)
        has_same_class ==
            /\ Get(parent_candidate, "class_names", None) \notin {None, ""}
            /\ Get(parent_candidate, "class_names", None)
                   = Get(child_candidate, "class_names", None)
    IN  has_same_text \/ has_same_class

\* lines 108-127 with the special container discarding its children only
DedupPairChildrenOnly(parent_candidate, child_candidate, elements_to_discard) ==
    LET parent_id == Get(parent_candidate, "unique_id", None)
        child_id == Get(child_candidate, "unique_id", None)
        parent_xpath == Get(parent_candidate, "xpath", "")
        child_xpath == Get(child_candidate, "xpath", "")
        parent_classes == Get(parent_candidate, "class_names", "")
        is_special_container == Contains(parent_classes, SpecialContainerClass)
    IN  IF parent_id \in elements_to_discard \/ child_id \in elements_to_discard
        THEN elements_to_discard
        ELSE IF parent_xpath = "" \/ child_xpath = ""
        THEN elements_to_discard
        ELSE IF /\ StartsWith(child_xpath, parent_xpath)
                /\ Count(child_xpath, "/") = Count(parent_xpath, "/") + 1
                /\ is_special_container \/ IsNestedDuplicate(parent_candidate, child_candidate)
        THEN elements_to_discard \cup {child_id}
        ELSE elements_to_discard

\* lines 108-127: the body of the double loop for one pair; the value is
\* elements_to_discard after it
DedupPair(parent_candidate, child_candidate, elements_to_discard) ==
    LET parent_id == Get(parent_candidate, "unique_id", None)
        child_id == Get(child_candidate, "unique_id", None)
        parent_xpath == Get(parent_candidate, "xpath", "")
        child_xpath == Get(child_candidate, "xpath", "")
        parent_classes == Get(parent_candidate, "class_names", "")
        is_special_container == Contains(parent_classes, SpecialContainerClass)
    IN  IF parent_id \in elements_to_discard \/ child_id \in elements_to_discard
        THEN elements_to_discard
        ELSE IF parent_xpath = "" \/ child_xpath = ""
        THEN elements_to_discard
        ELSE IF /\ is_special_container
                /\ StartsWith(child_xpath, parent_xpath)
                /\ child_xpath # parent_xpath
        THEN elements_to_discard \cup {child_id}
        ELSE IF /\ StartsWith(child_xpath, parent_xpath)
                /\ Count(child_xpath, "/") = Count(parent_xpath, "/") + 1
                /\ IsNestedDuplicate(parent_candidate, child_candidate)
        THEN elements_to_discard \cup {child_id}
        ELSE elements_to_discard

\* lines 106-107: the double loop from the pair (a, b) on, indices from 1
RECURSIVE DedupLoop(_, _, _, _)
DedupLoop(sorted_elements, a, b, elements_to_discard) ==
    IF a > Len(sorted_elements) THEN elements_to_discard
    ELSE IF b > Len(sorted_elements)
         THEN DedupLoop(sorted_elements, a + 1, a + 2, elements_to_discard)
         ELSE DedupLoop(sorted_elements, a, b + 1,
                        DedupPair(sorted_elements[a], sorted_elements[b],
                                  elements_to_discard))

\* lines 104-127: the fingerprints discarded for a list
ElementsToDiscard(elems) == DedupLoop(SortedByXPathLen(elems), 1, 2, {})

\* line 128: the entries whose fingerprint is not discarded, in the order of
\* the input list
RECURSIVE NotDiscarded(_, _)
NotDiscarded(elems, elements_to_discard) ==
    IF elems = << >> THEN << >>
    ELSE (IF Get(Head(elems), "unique_id", None) \notin elements_to_discard
          THEN << Head(elems) >> ELSE << >>)
             \o NotDiscarded(Tail(elems), elements_to_discard)

\* line 128 reading sorted_elements in place of elements
AdvancedDeduplicationSorted(elems) ==
    NotDiscarded(SortedByXPathLen(elems), ElementsToDiscard(elems))

\* lines 103-129
AdvancedDeduplication(elems) == NotDiscarded(elems, ElementsToDiscard(elems))

-----------------------------------------------------------------------------
(* find_clickable_elements: click_tester.py lines 606-757, the collection  *)
(* of descriptors and what follows it.                                     *)

\* lines 709-714 without the unique_ids test
FinalFilterNoIdTest(acc, deduplicated) ==
    [final |-> acc.final \o deduplicated,
     ids |-> acc.ids \cup {Get(e, "unique_id", None) : e \in
                               {deduplicated[k] : k \in DOMAIN deduplicated}}]

\* lines 709-714: one entry per fingerprint, the first seen; a fingerprint of 0
\* is falsy and its descriptor is left out.  acc is (final_elements, unique_ids)
RECURSIVE FinalFilter(_, _)
FinalFilter(acc, deduplicated) ==
    IF deduplicated = << >> THEN acc
    ELSE LET element_info == Head(deduplicated)
             uid == Get(element_info, "unique_id", 0)
         IN  IF uid # 0 /\ uid \notin acc.ids
             THEN FinalFilter([final |-> Append(acc.final, element_info),
                               ids |-> acc.ids \cup {uid}],
                              Tail(deduplicated))
             ELSE FinalFilter(acc, Tail(deduplicated))

\* the DOM nodes a discovery run may meet, each at a position of a small tree:
\* a container, its two children and a grandchild
Node(dompath, tag, class, text, id) ==
    [dompath  |-> dompath,
     tag_name |-> tag,
     class    |-> class,
     text     |-> text,
     id       |-> id,
     href     |-> IF tag = "a" THEN "/about" ELSE None,
     onclick  |-> None,
     role     |-> None,
     tabindex |-> None,
     cursor   |-> "pointer"]

TenAs == "aaaaaaaaaa"
FiftyAs == TenAs \o TenAs \o TenAs \o TenAs \o TenAs

DiscoverNodes ==
    { Node("/html/body/div[1]", "div", class, text, "") :
        class \in {None, "card", SpecialContainerClass}, text \in {"", "Same Text"} }
    \cup
    { Node("/html/body/div[1]/a[1]", "a", class, text, "") :
        class \in {None, "card"}, text \in {"", "Same Text"} }
    \cup
    { Node("/html/body/div[1]/a[1]/span[1]", "span", "card", "Same Text", ""),
      Node("/html/body/div[1]/a[1]/span[1]", "span", None, "", ""),
      Node("/html/body/div[1]/div[1]", "div", "card", "Same Text", ""),
      Node("/html/body/div[1]/div[1]", "div", "card", "Same Text", "hero"),
      Node("/html/body/div[1]", "div", "card", FiftyAs \o "x", ""),
      Node("/html/body/div[1]/div[1]", "div", "card", FiftyAs \o "y", "") }

\* the two descriptors and the locator path of each node, computed once
RegularInfo == [n \in DiscoverNodes |-> ElementInfo(n)]
HiddenInfo == [n \in DiscoverNodes |-> ElementInfoForHidden(n)]
XPathOf == [n \in DiscoverNodes |-> GetElementXPath(n)]

\* n can stand in one document with the nodes behind the descriptors of infos:
\* a locator path denotes one node
SameDocument(n, infos) ==
    \A k \in DOMAIN infos :
        infos[k].xpath = XPathOf[n] => infos[k] \in {RegularInfo[n], HiddenInfo[n]}

\* the subsets of S with at most k members
RECURSIVE SubsetsUpTo(_, _)
SubsetsUpTo(S, k) ==
    IF k = 0 THEN {{}}
    ELSE LET smaller == SubsetsUpTo(S, k - 1)
         IN  smaller \cup {T \cup {n} : T \in smaller, n \in S}

IdleDiscover ==
    /\ clickable_elements = << >>
    /\ seen_elements = {}
    /\ extracted = {}
    /\ deduplicated_elements = << >>
    /\ final_elements = << >>
    /\ unique_ids = {}
    /\ fallback_elements = {}
    /\ discPc = "idle"

IdleBatch ==
    /\ batch = << >>
    /\ batch_results = << >>
    /\ i = 0
    /\ pc = "idle"
    /\ page = None
    /\ dom = None
    /\ result = None
    /\ initial = None
    /\ attempt = 0
    /\ element = None
    /\ dom_changed = FALSE
    /\ env = None
    /\ hist = None

IdleRun ==
    /\ max_workers = 1
    /\ driver = "none"
    /\ found_elements = << >>
    /\ driver_pool = NoPool
    /\ quit_called = {}
    /\ quit_raised = {}
    /\ run_batches = << >>
    /\ test_results = NoReport
    /\ futures = << >>
    /\ touched = {}
    /\ exc = None
    /\ runPc = "idle"
    /\ report = None

IdleSteps ==
    /\ stepPc = "idle"
    /\ step_log = << >>
    /\ height = 0
    /\ iframes = 0
    /\ context = "top"
    /\ step_found = {}
    /\ revealed = FALSE

IdleFind ==
    /\ find_info = << >>
    /\ find_pc = 0
    /\ find_log = << >>
    /\ find_answer = << >>
    /\ find_result = << >>

IdleDeep ==
    /\ deep_page = << >>
    /\ deep_stack = << >>
    /\ deep_context = << >>
    /\ deep_log = {}
    /\ deep_result = None

-----------------------------------------------------------------------------
(* Specification SpecDivide. *)

InitDivide ==
    /\ elements \in SeqsUpTo(1..3, MaxElements)
    /\ num_batches \in 1..MaxWorkers
    /\ batches = << >>
    /\ dividePc = "call"
    /\ IdleDiscover
    /\ IdleBatch
    /\ IdleRun
    /\ IdleSteps
    /\ IdleFind
    /\ IdleDeep

\* the call of _divide_elements_into_batches(elements, num_batches)
Divide ==
    /\ dividePc = "call"
    /\ batches' = DivideElementsIntoBatches(elements, num_batches)
    /\ dividePc' = "returned"
    /\ UNCHANGED <<elements, num_batches, discoverVars, batchVars, runVars, stepVars, findVars, deepVars>>

NextDivide == Divide

SpecDivide == InitDivide /\ [][NextDivide]_vars

-----------------------------------------------------------------------------
(* Specification SpecDiscover. *)

InitDiscover ==
    /\ clickable_elements = << >>
    /\ seen_elements = {}
    /\ extracted = {}
    /\ deduplicated_elements = << >>
    /\ final_elements = << >>
    /\ unique_ids = {}
    /\ fallback_elements = {}
    /\ discPc = "scan"
    /\ IdleDivide
    /\ IdleBatch
    /\ IdleRun
    /\ IdleSteps
    /\ IdleFind
    /\ IdleDeep

\* self._extract_element_info(element) in a scan step (selector, pointer-cursor,
\* event-listener, iframe, shadow-DOM scan, DeepCrawler pass) followed by the
\* append: extract_element_info lines 31-52 return None for a node that is not
\* clickable or whose fingerprint was seen
ExtractElementInfo(n) ==
    /\ discPc = "scan"
    /\ Len(clickable_elements) < MaxDiscovered
    /\ SameDocument(n, clickable_elements)
    /\ LET element_info == RegularInfo[n]
       IN  IF IsClickable(n) /\ element_info.unique_id \notin seen_elements
           THEN /\ seen_elements' = seen_elements \cup {element_info.unique_id}
                /\ clickable_elements' = Append(clickable_elements, element_info)
                /\ extracted' = extracted \cup {element_info}
           ELSE UNCHANGED <<seen_elements, clickable_elements, extracted>>
    /\ UNCHANGED <<deduplicated_elements, final_elements, unique_ids, fallback_elements,
                   discPc>>
    /\ UNCHANGED <<divideVars, batchVars, runVars, stepVars, findVars, deepVars>>

\* self._extract_element_info_for_hidden(element) in _extract_clickables_from_slide
\* (lines 514-538) followed by the append: no seen_elements test
ExtractElementInfoForHidden(n) ==
    /\ discPc = "scan"
    /\ Len(clickable_elements) < MaxDiscovered
    /\ SameDocument(n, clickable_elements)
    /\ clickable_elements' = Append(clickable_elements, HiddenInfo[n])
    /\ extracted' = extracted \cup {HiddenInfo[n]}
    /\ UNCHANGED <<seen_elements, deduplicated_elements, final_elements, unique_ids,
                   fallback_elements, discPc>>
    /\ UNCHANGED <<divideVars, batchVars, runVars, stepVars, findVars, deepVars>>

\* the sets of nodes of one document, at most MaxFallback each
DocumentSets ==
    { S \in SubsetsUpTo(DiscoverNodes, MaxFallback) :
        \A n1, n2 \in S : XPathOf[n1] = XPathOf[n2] => n1 = n2 }

\* the nodes the fallback scan may collect (lines 724-746): any set of nodes of
\* the document
FallbackSets ==
    { S \in DocumentSets : \A n \in S : SameDocument(n, clickable_elements) }

\* line 717 with the fallback scan run in every case
RunsFallbackAlways(final) == TRUE

\* line 717: the fallback scan runs when the final list is empty
RunsFallback(final) == Len(final) = 0

\* lines 706-717: advanced_deduplication, the final filter, and either the
\* return or the collection of the fallback scan's nodes (lines 719-746)
Deduplicate ==
    /\ discPc = "scan"
    /\ LET deduplicated == AdvancedDeduplication(clickable_elements)
           acc == FinalFilter([final |-> << >>, ids |-> {}], deduplicated)
       IN  /\ deduplicated_elements' = deduplicated
           /\ final_elements' = acc.final
           /\ unique_ids' = acc.ids
           /\ IF RunsFallback(acc.final)
              THEN \E S \in FallbackSets :
                      /\ fallback_elements' = S
                      /\ discPc' = "fallback"
              ELSE /\ fallback_elements' = {}
                   /\ discPc' = "returned"
    /\ UNCHANGED <<clickable_elements, seen_elements, extracted>>
    /\ UNCHANGED <<divideVars, batchVars, runVars, stepVars, findVars, deepVars>>

\* lines 748-755: one iteration of the loop over the set fallback_elements, in
\* the set's order
FallbackExtract(n) ==
    /\ discPc = "fallback"
    /\ n \in fallback_elements
    /\ fallback_elements' = fallback_elements \ {n}
    /\ LET element_info == RegularInfo[n]
       IN  IF IsClickable(n) /\ element_info.unique_id \notin seen_elements
           THEN /\ seen_elements' = seen_elements \cup {element_info.unique_id}
                /\ extracted' = extracted \cup {element_info}
                /\ IF element_info.unique_id # 0 /\ element_info.unique_id \notin unique_ids
                   THEN /\ unique_ids' = unique_ids \cup {element_info.unique_id}
                        /\ final_elements' = Append(final_elements, element_info)
                   ELSE UNCHANGED <<unique_ids, final_elements>>
           ELSE UNCHANGED <<seen_elements, extracted, unique_ids, final_elements>>
    /\ UNCHANGED <<clickable_elements, deduplicated_elements, discPc>>
    /\ UNCHANGED <<divideVars, batchVars, runVars, stepVars, findVars, deepVars>>

\* lines 756-757: the fallback scan has extracted its last node and
\* find_clickable_elements returns
FallbackReturn ==
    /\ discPc = "fallback"
    /\ fallback_elements = {}
    /\ discPc' = "returned"
    /\ UNCHANGED <<clickable_elements, seen_elements, extracted, deduplicated_elements,
                   final_elements, unique_ids, fallback_elements>>
    /\ UNCHANGED <<divideVars, batchVars, runVars, stepVars, findVars, deepVars>>

NextDiscover ==
    \/ \E n \in DiscoverNodes : ExtractElementInfo(n)
    \/ \E n \in DiscoverNodes : ExtractElementInfoForHidden(n)
    \/ Deduplicate
    \/ \E n \in DiscoverNodes : FallbackExtract(n)
    \/ FallbackReturn

SpecDiscover == InitDiscover /\ [][NextDiscover]_vars

-----------------------------------------------------------------------------
(* is_dead_click_by_href: element_utils.py lines 212-227. *)

\* line 215-218
dead_patterns ==
    {"", "#", "javascript:void(0)", "javascript:void(0);", "javascript:",
     "javascript::void(0)", "void(0)", "undefined", "null", "about:blank"}

IsDeadClickByHref(element_info) ==
    LET href == Lower(StripSpaces(OrEmpty(Get(element_info, "href", None))))
        onclick == Lower(StripSpaces(OrEmpty(Get(element_info, "onclick", None))))
    IN  \/ href \in dead_patterns
        \/ StartsWith(href, "javascript:") \/ StartsWith(href, "void(0)")
        \/ onclick \in {"void(0)", "javascript:void(0)", ""}
        \/ StartsWith(onclick, "javascript:")

-----------------------------------------------------------------------------
(* The browser session of a worker and the page it shows. *)

TargetUrl == "https://site.test/"
OtherUrl == "https://site.test/next"

\* a session fresh from _setup_driver: nothing loaded
BlankPage ==
    [url |-> "data:,", title |-> "", html |-> 0, styled |-> 0, overlay |-> "none"]

\* the page after driver.get(url).  html is the version of the body's markup,
\* styled counts the nodes that carry the inline styles of the carousel
\* normalisation, overlay is the node matching the modal selectors ("modal")
\* or the dropdown selectors ("dropdown"), if any
LoadedPage ==
    [url |-> TargetUrl, title |-> "Home", html |-> 0, styled |-> 0, overlay |-> "none"]

Overlays == <<"none", "modal", "dropdown">>

\* more than the nodes one run normalises
StyledRadix == MaxBatch + 1

\* a digest of the body that leaves the overlay node out
DomHashNoOverlay(p) == p.html * StyledRadix + p.styled

\* hashlib.md5(document.body.innerHTML): the markup version, the inline styles
\* and the overlay node are all part of the body's markup; distinct markup,
\* distinct digest
DomHash(p) ==
    (p.html * StyledRadix + p.styled) * Len(Overlays)
        + (CHOOSE k \in DOMAIN Overlays : Overlays[k] = p.overlay)

\* what the page does in answer to a click
Effects == {"navigate", "title", "mutate", "modal", "dropdown"}

ApplyEffect(e, p) ==
    CASE e = "navigate" -> [p EXCEPT !.url = OtherUrl, !.title = "Next", !.html = 1 - p.html,
                                     !.styled = 0, !.overlay = "none"]
      [] e = "title"    -> [p EXCEPT !.title = IF p.title = "Home" THEN "Home (1)" ELSE "Home"]
      [] e = "mutate"   -> [p EXCEPT !.html = 1 - p.html]
      [] e = "modal"    -> [p EXCEPT !.overlay = "modal"]
      [] e = "dropdown" -> [p EXCEPT !.overlay = "dropdown"]

\* the states of the node a descriptor denotes, as a location attempt meets it
DomStates == {"absent", "hidden", "disabled", "ok"}

\* the elements under test
VoidLink ==
    [Node("/html/body/a[1]", "a", None, "Void", "") EXCEPT !.href = "javascript:void(0)"]
VoidButton ==
    [Node("/html/body/button[1]", "button", None, "Click", "") EXCEPT !.onclick = "void(0)"]
RealLink ==
    [Node("/html/body/a[2]", "A", None, "About", "") EXCEPT !.href = "/about",
                                                             !.onclick = "doThing()"]
SpacedVoidLink ==
    [Node("/html/body/a[3]", "a", None, "More", "") EXCEPT !.href = "JavaScript: void(0)",
                                                            !.onclick = "doThing()"]
PlainLink ==
    [Node("/html/body/a[4]", "a", None, "Contact", "") EXCEPT !.href = "/contact",
                                                               !.onclick = "go()"]

ClickNodes == {VoidLink, VoidButton, RealLink, SpacedVoidLink, PlainLink}

\* the list find_clickable_elements returned for the page: the button and the
\* last link found by the ordinary scan, the other links in carousel slides
DiscoveredElements ==
    << ElementInfo(VoidButton), ElementInfoForHidden(VoidLink),
       ElementInfoForHidden(RealLink), ElementInfoForHidden(SpacedVoidLink),
       ElementInfo(PlainLink) >>

\* the node a descriptor was extracted from
NodeOf(element_info) ==
    CHOOSE n \in ClickNodes : GetElementXPath(n) = element_info.xpath

\* lines 142-151
NewResult(element_info) ==
    [element_info |-> element_info, click_status |-> "unknown", error_message |-> "",
     page_changed |-> FALSE, url_before |-> "", url_after |-> "",
     new_elements_appeared |-> FALSE]

\* lines 124-133
BatchErrorResult(element_info, url) ==
    [element_info |-> element_info, click_status |-> "batch_error",
     error_message |-> "exception", page_changed |-> FALSE, url_before |-> url,
     url_after |-> url, new_elements_appeared |-> FALSE]

\* lines 122-134 without line 134
HandleBatchErrorNoAppend(results, element_info, url) == results

\* lines 122-134: the handler of the loop body of _test_element_batch
HandleBatchError(results, element_info, url) ==
    Append(results, BatchErrorResult(element_info, url))

\* lines 167-168 with the status of line 176
NotFoundAsNotClickable(res) ==
    [res EXCEPT !.click_status = "not_clickable",
                !.error_message = "Element is not displayed or enabled"]

\* lines 167-168
NotFoundResult(res) ==
    [res EXCEPT !.click_status = "element_not_found",
                !.error_message = "Element could not be located for clicking (after retries)"]

\* lines 249-251
ErrorResult(res) == [res EXCEPT !.click_status = "error", !.error_message = "exception"]

SuspiciousMessage == "Dead click: suspicious href or onclick and no visible effect"
GenericMessage == "Dead click: no visible effect after click"

\* lines 224-246 with the DOM test put first
ClassifyDomFirst(res, url_changed, title_changed, changed, overlay_found, is_suspicious) ==
    IF changed
    THEN [res EXCEPT !.click_status = "active_dom_change"]
    ELSE IF url_changed
    THEN [res EXCEPT !.click_status = "active_navigation", !.page_changed = TRUE]
    ELSE IF title_changed
    THEN [res EXCEPT !.click_status = "active_title_change", !.page_changed = TRUE]
    ELSE IF overlay_found
    THEN [res EXCEPT !.click_status = "active_ui_change", !.new_elements_appeared = TRUE]
    ELSE IF is_suspicious
    THEN [res EXCEPT !.click_status = "dead_click", !.error_message = SuspiciousMessage]
    ELSE [res EXCEPT !.click_status = "dead_click", !.error_message = GenericMessage]

\* lines 224-246 without the two dead_click branches
ClassifyNoDefault(res, url_changed, title_changed, changed, overlay_found, is_suspicious) ==
    IF url_changed
    THEN [res EXCEPT !.click_status = "active_navigation", !.page_changed = TRUE]
    ELSE res

\* lines 224-246: the classification of an observed click
Classify(res, url_changed, title_changed, changed, overlay_found, is_suspicious) ==
    IF url_changed
    THEN [res EXCEPT !.click_status = "active_navigation", !.page_changed = TRUE]
    ELSE IF title_changed
    THEN [res EXCEPT !.click_status = "active_title_change", !.page_changed = TRUE]
    ELSE IF changed
    THEN [res EXCEPT !.click_status = "active_dom_change"]
    ELSE IF overlay_found
    THEN [res EXCEPT !.click_status = "active_ui_change", !.new_elements_appeared = TRUE]
    ELSE IF is_suspicious
    THEN [res EXCEPT !.click_status = "dead_click", !.error_message = SuspiciousMessage]
    ELSE [res EXCEPT !.click_status = "dead_click", !.error_message = GenericMessage]

-----------------------------------------------------------------------------
(* Specification SpecBatch: _test_element_batch, click_tester.py lines     *)
(* 105-136, with _test_element_click_with_driver, lines 138-254, in one    *)
(* session.  A driver call that can raise is a choice between its return   *)
(* and the exception; a run has at most MaxFaults exceptions and the page  *)
(* changes at most MaxEffects times on its own or in answer to a click.    *)

\* location attempts of line 160
LocateAttempts == 3

\* the history of one element test: location attempts that failed, clicks
\* performed, how the pointer click of line 182 and the script click of line
\* 186 ended, what the page did after the click during the wait (effects) and
\* during the settle delay (late), whether an exception ended the test (raised),
\* whether the wait ended on an exception, whether the carousel normalisation
\* ran, whether the observation of lines 208-246 was completed, whether its
\* search found a modal or a dropdown, the overlay open before the test
NewHist(p) ==
    [failed |-> 0, clicks |-> 0, pointer |-> "none", script |-> "none",
     effects |-> {}, late |-> {}, raised |-> FALSE,
     wait_raised |-> FALSE, normalized |-> FALSE, observed |-> FALSE,
     overlay_found |-> FALSE, overlay_before |-> p.overlay]

\* the batches of a run: those _divide_elements_into_batches makes of the
\* list for some number of workers, up to MaxBatch descriptors long
Batches ==
    { b \in UNION { Range(DivideElementsIntoBatches(DiscoveredElements, w)) :
                      w \in 1..Len(DiscoveredElements) } :
        Len(b) <= MaxBatch }

InitBatch ==
    /\ batch \in Batches
    /\ batch_results = << >>
    /\ i = 1
    /\ pc = "navigate"
    /\ page = BlankPage
    /\ dom = None
    /\ result = None
    /\ initial = None
    /\ attempt = 0
    /\ element = None
    /\ dom_changed = FALSE
    /\ env = [faults |-> 0, effects |-> 0]
    /\ hist = NewHist(BlankPage)
    /\ IdleDivide
    /\ IdleDiscover
    /\ IdleRun
    /\ IdleSteps
    /\ IdleFind
    /\ IdleDeep

\* the function returns res: line 115 (or 134) appends it
Return(res) ==
    /\ result' = res
    /\ batch_results' = Append(batch_results, res)
    /\ pc' = "appended"

\* a driver call raises
Fault == env.faults < MaxFaults /\ env' = [env EXCEPT !.faults = env.faults + 1]

\* lines 110-112 without the load
EnsureLoadedNever(p) == p

\* lines 110-112: the target URL is loaded when the session shows another URL
EnsureLoaded(p) == IF p.url # TargetUrl THEN LoadedPage ELSE p

\* lines 110-112, and lines 122-134 when current_url or get raises.  dom becomes
\* the state of the node of batch[i] in the page the session then shows: the
\* node as it was discovered, or changed since
EnsureTargetUrl ==
    /\ pc = "navigate"
    /\ \/ /\ page' = EnsureLoaded(page)
          /\ hist' = NewHist(page')
          /\ \/ dom' = "ok" /\ UNCHANGED env
             \/ /\ env.effects < MaxEffects
                /\ dom' \in DomStates \ {"ok"}
                /\ env' = [env EXCEPT !.effects = env.effects + 1]
          /\ pc' = "begin"
          /\ UNCHANGED <<result, batch_results>>
       \/ /\ Fault
          /\ result' = BatchErrorResult(batch[i], TargetUrl)
          /\ batch_results' = HandleBatchError(batch_results, batch[i], TargetUrl)
          /\ pc' = "appended"
          /\ hist' = [hist EXCEPT !.raised = TRUE]
          /\ UNCHANGED <<page, dom>>
    /\ UNCHANGED <<batch, i, initial, attempt, element, dom_changed>>
    /\ UNCHANGED <<divideVars, discoverVars, runVars, stepVars, findVars, deepVars>>

\* lines 142-159: the result dict and the readings before the click; the
\* exception of a reading goes to line 249
BeginTest ==
    /\ pc = "begin"
    /\ \/ /\ result' = [NewResult(batch[i]) EXCEPT !.url_before = page.url]
          /\ initial' = [url |-> page.url, title |-> page.title, hash |-> DomHash(page)]
          /\ pc' = "locate"
          /\ UNCHANGED <<batch_results, hist, env>>
       \/ /\ Fault
          /\ \E url_read \in BOOLEAN :
                Return(ErrorResult(
                    IF url_read THEN [NewResult(batch[i]) EXCEPT !.url_before = page.url]
                    ELSE NewResult(batch[i])))
          /\ hist' = [hist EXCEPT !.raised = TRUE]
          /\ UNCHANGED initial
    /\ UNCHANGED <<batch, i, page, dom, attempt, element, dom_changed>>
    /\ UNCHANGED <<divideVars, discoverVars, runVars, stepVars, findVars, deepVars>>

\* the node of batch[i] changes between two steps of the worker
NodeChange(d) ==
    /\ pc \in {"locate", "located"}
    /\ env.effects < MaxEffects
    /\ d # dom
    /\ dom' = d
    /\ env' = [env EXCEPT !.effects = env.effects + 1]
    /\ UNCHANGED <<batch, batch_results, i, pc, page, result, initial, attempt, element,
                   dom_changed, hist>>
    /\ UNCHANGED <<divideVars, discoverVars, runVars, stepVars, findVars, deepVars>>

\* lines 160-165, one turn of the loop: _find_element_by_info_with_driver
\* returns a node only if it is displayed (lines 256-349) and never raises; the
\* loop ends on a displayed and enabled node or after the third attempt
Locate ==
    /\ pc = "locate"
    /\ element' = IF dom \in {"disabled", "ok"} THEN "element" ELSE None
    /\ hist' = [hist EXCEPT !.failed = IF dom = "ok" THEN hist.failed ELSE hist.failed + 1]
    /\ attempt' = attempt + 1
    /\ pc' = IF dom = "ok" \/ attempt' = LocateAttempts THEN "located" ELSE "locate"
    /\ UNCHANGED <<batch, batch_results, i, page, dom, result, initial, dom_changed, env>>
    /\ UNCHANGED <<divideVars, discoverVars, runVars, stepVars, findVars, deepVars>>

\* lines 166-170
NotFound ==
    /\ pc = "located"
    /\ element = None
    /\ Return(NotFoundResult(result))
    /\ UNCHANGED <<batch, i, page, dom, initial, attempt, element, dom_changed, hist, env>>
    /\ UNCHANGED <<divideVars, discoverVars, runVars, stepVars, findVars, deepVars>>

\* lines 171-179: the carousel normalisation (lines 351-368, which writes inline
\* styles on the node and its ancestors and swallows its exception), the scroll
\* and the second test of the node one second later; the script of line 173
\* raises, and so does the test of a node gone from the document
PrepareClick ==
    /\ pc = "located"
    /\ element # None
    /\ \E fault \in {"none", "normalise", "scroll"} :
          LET carousel == Get(batch[i], "is_carousel_element", FALSE)
              normalise == carousel /\ fault # "normalise"
              raised == fault = "scroll" \/ dom = "absent"
          IN  /\ fault = "normalise" => carousel
              /\ IF fault = "none" THEN UNCHANGED env ELSE Fault
              /\ page' = IF normalise THEN [page EXCEPT !.styled = page.styled + 1] ELSE page
              /\ hist' = [hist EXCEPT !.normalized = normalise, !.raised = raised]
              /\ IF raised
                 THEN Return(ErrorResult(result))
                 ELSE IF dom # "ok"
                 THEN Return([result EXCEPT !.click_status = "not_clickable",
                                 !.error_message = "Element is not displayed or enabled"])
                 ELSE /\ pc' = "click"
                      /\ UNCHANGED <<result, batch_results>>
    /\ UNCHANGED <<batch, i, dom, initial, attempt, element, dom_changed>>
    /\ UNCHANGED <<divideVars, discoverVars, runVars, stepVars, findVars, deepVars>>

\* lines 184-186 with the script click tried after any exception
AttemptsFallbackOnAny(pointer) == pointer # "ok"

\* line 184: the script click is tried when the pointer click raised
\* ElementClickInterceptedException
AttemptsFallback(pointer) == pointer = "intercepted"

\* lines 181-197: the pointer click; the script click when the pointer click is
\* intercepted; click_intercepted when that raises too; error when the pointer
\* click raises anything else.  A pointer click that raises is one of the
\* run's exceptions, whatever the script click does after it
Click ==
    /\ pc = "click"
    /\ \E pointer \in {"ok", "intercepted", "raised"}, script \in {"none", "ok", "raised"} :
          /\ script # "none" <=> AttemptsFallback(pointer)
          /\ IF pointer = "ok" THEN UNCHANGED env ELSE Fault
          /\ IF pointer = "ok" \/ script = "ok"
             THEN /\ hist' = [hist EXCEPT !.clicks = hist.clicks + 1,
                                          !.pointer = pointer, !.script = script]
                  /\ pc' = "wait"
                  /\ UNCHANGED <<result, batch_results>>
             ELSE /\ hist' = [hist EXCEPT !.raised = TRUE,
                                          !.pointer = pointer, !.script = script]
                  /\ Return([result EXCEPT
                                !.click_status = IF script = "raised"
                                                 THEN "click_intercepted" ELSE "error",
                                !.error_message = IF script = "raised"
                                                  THEN "Click intercepted: exception"
                                                  ELSE "Error during click: exception"])
    /\ dom_changed' = FALSE
    /\ UNCHANGED <<batch, i, page, dom, initial, attempt, element>>
    /\ UNCHANGED <<divideVars, discoverVars, runVars, stepVars, findVars, deepVars>>

\* the page answers the click, during the wait or during the settle delay
PageEffect(e) ==
    /\ pc \in {"wait", "settle"}
    /\ env.effects < MaxEffects
    /\ e \in {"modal", "dropdown"} => page.overlay = "none"
    /\ page' = ApplyEffect(e, page)
    /\ hist' = IF pc = "wait" THEN [hist EXCEPT !.effects = hist.effects \cup {e}]
                ELSE [hist EXCEPT !.late = hist.late \cup {e}]
    /\ env' = [env EXCEPT !.effects = env.effects + 1]
    /\ UNCHANGED <<batch, batch_results, i, pc, dom, result, initial, attempt, element,
                   dom_changed>>
    /\ UNCHANGED <<divideVars, discoverVars, runVars, stepVars, findVars, deepVars>>

\* lines 199-206, the end of WebDriverWait(driver, 6).until: a poll finds the
\* digest of the body different from dom_hash_before, or the script raises
\* (line 204), or the last poll finds the digest the same and the time is up
Poll ==
    /\ pc = "wait"
    /\ \/ /\ DomHash(page) # initial.hash
          /\ dom_changed' = TRUE
          /\ UNCHANGED <<env, hist>>
       \/ /\ DomHash(page) = initial.hash
          /\ dom_changed' = FALSE
          /\ UNCHANGED <<env, hist>>
       \/ /\ Fault
          /\ dom_changed' = FALSE
          /\ hist' = [hist EXCEPT !.wait_raised = TRUE]
    /\ pc' = "settle"
    /\ UNCHANGED <<batch, batch_results, i, page, dom, result, initial, attempt, element>>
    /\ UNCHANGED <<divideVars, discoverVars, runVars, stepVars, findVars, deepVars>>

\* lines 247-248
WithHashes(res, before, after) ==
    [k \in DOMAIN res \cup {"dom_hash_before", "dom_hash_after"} |->
        IF k = "dom_hash_before" THEN before
        ELSE IF k = "dom_hash_after" THEN after
        ELSE res[k]]

\* lines 207-248: the readings after the settle delay, the search for modals
\* and dropdowns (whose exception leaves both lists empty) and the
\* classification; the exception of a reading goes to line 249
Observe ==
    /\ pc = "settle"
    /\ \E raises \in {"no", "reading", "find_elements"} :
          /\ IF raises = "no" THEN UNCHANGED env ELSE Fault
          /\ IF raises = "reading"
             THEN /\ Return(ErrorResult(result))
                  /\ hist' = [hist EXCEPT !.raised = TRUE]
             ELSE /\ Return(WithHashes(
                        Classify([result EXCEPT !.url_after = page.url],
                                 page.url # initial.url,
                                 page.title # initial.title,
                                 dom_changed,
                                 raises = "no" /\ page.overlay # "none",
                                 IsDeadClickByHref(batch[i])),
                        initial.hash, DomHash(page)))
                  /\ hist' = [hist EXCEPT !.observed = TRUE,
                                          !.overlay_found = raises = "no" /\ page.overlay # "none"]
    /\ UNCHANGED <<batch, i, page, dom, initial, attempt, element, dom_changed>>
    /\ UNCHANGED <<divideVars, discoverVars, runVars, stepVars, findVars, deepVars>>

\* line 108: the next turn of the loop, or line 136 after the last
NextElement ==
    /\ pc = "appended"
    /\ IF i < Len(batch)
       THEN /\ i' = i + 1
            /\ pc' = "navigate"
            /\ hist' = NewHist(page)
            /\ dom' = None
            /\ initial' = None
            /\ attempt' = 0
            /\ element' = None
            /\ dom_changed' = FALSE
       ELSE /\ pc' = "returned"
            /\ UNCHANGED <<i, hist, dom, initial, attempt, element, dom_changed>>
    /\ UNCHANGED <<batch, batch_results, page, result, env>>
    /\ UNCHANGED <<divideVars, discoverVars, runVars, stepVars, findVars, deepVars>>

NextBatch ==
    \/ EnsureTargetUrl
    \/ BeginTest
    \/ \E d \in DomStates : NodeChange(d)
    \/ Locate
    \/ NotFound
    \/ PrepareClick
    \/ Click
    \/ \E e \in Effects : PageEffect(e)
    \/ Poll
    \/ Observe
    \/ NextElement

SpecBatch == InitBatch /\ [][NextBatch]_vars

-----------------------------------------------------------------------------
(* TestService.run_and_report (test_service.py lines 12-19) and            *)
(* run_comprehensive_test_concurrent (click_tester.py lines 1053-1117).    *)
(* A pooled session is named by the index of the loop of                   *)
(* _setup_driver_pool that created it.  A descriptor is named by its       *)
(* position in the discovered list.                                        *)

\* self.driver, the discovery session (line 43), among the session names
MainSession == 0

\* the thread that runs run_and_report, among the batch ids of the workers
CoordinatingThread == 0

\* lines 72-81 with the first failure ending the loop and emptying the pool
SetupDriverPoolAllOrNothing(k, n, ok) ==
    IF (k..n) \subseteq ok THEN [j \in 1..(n - k + 1) |-> k + j - 1] ELSE << >>

\* _setup_driver_pool, lines 72-81, from iteration k on: the driver of iteration
\* k joins the pool when _setup_driver returned it (k in ok); an exception is
\* logged and the loop goes on
RECURSIVE SetupDriverPool(_, _, _)
SetupDriverPool(k, n, ok) ==
    IF k > n THEN << >>
    ELSE (IF k \in ok THEN <<k>> ELSE << >>) \o SetupDriverPool(k + 1, n, ok)

\* lines 83-89 without the try: the first quit() that raises ends the loop
RECURSIVE CloseDriverPoolStopOnError(_, _, _)
CloseDriverPoolStopOnError(pool, raising, called) ==
    IF pool = << >> THEN called
    ELSE IF Head(pool) \in raising THEN called \cup {Head(pool)}
    ELSE CloseDriverPoolStopOnError(Tail(pool), raising, called \cup {Head(pool)})

\* _close_driver_pool, lines 83-89: quit() is called on every driver of the
\* pool in turn; a quit() that raises (driver in raising) is logged and the loop
\* goes on with the next driver
RECURSIVE CloseDriverPool(_, _, _)
CloseDriverPool(pool, raising, called) ==
    IF pool = << >> THEN called
    ELSE CloseDriverPool(Tail(pool), raising, called \cup {Head(pool)})

\* line 1084 handing the first driver of the pool to every batch
PoolDriverFirst(pool, b) == pool[1]

\* line 1084: driver_pool[i] for the batch of index i (b counts from 1)
PoolDriver(pool, b) == pool[b]

\* lines 1065-1080 with batches_created taken from max_workers
InitialReportMaxWorkers(found, bs, mw) ==
    [total_elements_found |-> Len(found),
     elements_tested |-> 0,
     active_clicks |-> 0,
     dead_clicks |-> 0,
     errors |-> 0,
     results |-> << >>,
     concurrent_info |-> [max_workers |-> mw,
                          batches_created |-> mw,
                          batch_sizes |-> [k \in DOMAIN bs |-> Len(bs[k])]],
     summary |-> EmptyDict]

\* lines 1065-1080: the report before any batch is collected
InitialReport(found, bs, mw) ==
    [total_elements_found |-> Len(found),
     elements_tested |-> 0,
     active_clicks |-> 0,
     dead_clicks |-> 0,
     errors |-> 0,
     results |-> << >>,
     concurrent_info |-> [max_workers |-> mw,
                          batches_created |-> Len(bs),
                          batch_sizes |-> [k \in DOMAIN bs |-> Len(bs[k])]],
     summary |-> EmptyDict]

\* lines 1098-1104 counting as errors only the outcomes with status "error"
RECURSIVE TallyOnlyError(_, _)
TallyOnlyError(tr, results) ==
    IF results = << >> THEN tr
    ELSE LET status == Head(results).click_status
         IN  TallyOnlyError(
                 IF StartsWith(status, "active")
                 THEN [tr EXCEPT !.active_clicks = tr.active_clicks + 1]
                 ELSE IF status = "dead_click"
                 THEN [tr EXCEPT !.dead_clicks = tr.dead_clicks + 1]
                 ELSE IF status = "error"
                 THEN [tr EXCEPT !.errors = tr.errors + 1]
                 ELSE tr,
                 Tail(results))

\* lines 1098-1104: the loop over test_results['results']
RECURSIVE Tally(_, _)
Tally(tr, results) ==
    IF results = << >> THEN tr
    ELSE LET status == Head(results).click_status
         IN  Tally(
                 IF StartsWith(status, "active")
                 THEN [tr EXCEPT !.active_clicks = tr.active_clicks + 1]
                 ELSE IF status = "dead_click"
                 THEN [tr EXCEPT !.dead_clicks = tr.dead_clicks + 1]
                 ELSE [tr EXCEPT !.errors = tr.errors + 1],
                 Tail(results))

\* _get_click_status_breakdown, lines 1205-1210
ClickStatusBreakdown(results) ==
    LET statuses == {results[k].click_status : k \in DOMAIN results}
    IN  [s \in statuses |-> Cardinality({k \in DOMAIN results : results[k].click_status = s})]

\* round(count / total * 100, 2) of lines 1004-1006, in hundredths of a percent
Percentage(count, total) ==
    IF total > 0 THEN (count * 20000 + total) \div (2 * total) ELSE 0

\* _generate_summary, lines 1000-1009 (most_common_classes left out: the
\* descriptors of this specification carry no class names)
GenerateSummary(tr) ==
    [total_tested |-> tr.elements_tested,
     active_percentage |-> Percentage(tr.active_clicks, tr.elements_tested),
     dead_percentage |-> Percentage(tr.dead_clicks, tr.elements_tested),
     error_percentage |-> Percentage(tr.errors, tr.elements_tested),
     click_status_breakdown |-> ClickStatusBreakdown(tr.results)]

\* line 1117: the report of the aggregate-error path
ErrorReport(message) == [error |-> message]

\* the outcome of one element test as the run keeps it
Outcome(element_info, status) == [element_info |-> element_info, click_status |-> status]

-----------------------------------------------------------------------------
(* Specification SpecRun.  The coordinating thread runs run_and_report;    *)
(* between its steps the worker threads of the submitted batches run       *)
(* _test_element_batch, one element test a step.  A call that can raise is *)
(* a choice between its return and the exception.                          *)

InitRun ==
    /\ max_workers \in 1..MaxSessions
    /\ driver = "none"
    /\ found_elements = << >>
    /\ driver_pool = NoPool
    /\ quit_called = {}
    /\ quit_raised = {}
    /\ run_batches = << >>
    /\ test_results = NoReport
    /\ futures = << >>
    /\ touched = {}
    /\ exc = None
    /\ runPc = "construct"
    /\ report = None
    /\ IdleDivide
    /\ IdleDiscover
    /\ IdleBatch
    /\ IdleSteps
    /\ IdleFind
    /\ IdleDeep

\* test_service.py line 15: ClickableElementTester(...), whose __init__ creates
\* the discovery session (line 43); _setup_driver logs and re-raises (lines
\* 68-70) and nothing between it and the caller of run_and_report catches
Construct ==
    /\ runPc = "construct"
    /\ \/ driver' = "open" /\ runPc' = "find"
       \/ driver' = "none" /\ runPc' = "raised"
    /\ UNCHANGED <<max_workers, found_elements, driver_pool, quit_called,
                   quit_raised, run_batches, test_results, futures, touched,
                   exc, report>>
    /\ UNCHANGED <<divideVars, discoverVars, batchVars, stepVars, findVars, deepVars>>

\* line 1056: find_clickable_elements returns the de-duplicated descriptors or
\* raises
FindClickableElements ==
    /\ runPc = "find"
    /\ touched' = touched \cup {<<MainSession, CoordinatingThread, 0>>}
    /\ \/ \E n \in 0..MaxFound :
              /\ found_elements' = [k \in 1..n |-> k]
              /\ runPc' = "pool"
              /\ exc' = exc
       \/ /\ exc' = "discovery failed"
          /\ runPc' = "except"
          /\ found_elements' = found_elements
    /\ UNCHANGED <<max_workers, driver, driver_pool, quit_called, quit_raised,
                   run_batches, test_results, futures, report>>
    /\ UNCHANGED <<divideVars, discoverVars, batchVars, stepVars, findVars, deepVars>>

\* lines 1058-1060: the pool holds the sessions that started; an empty pool
\* raises
SetupPool ==
    /\ runPc = "pool"
    /\ \E ok \in SUBSET (1..max_workers) :
          /\ driver_pool' = SetupDriverPool(1, max_workers, ok)
          /\ IF driver_pool' = << >>
             THEN exc' = "Failed to initialize driver pool" /\ runPc' = "except"
             ELSE exc' = exc /\ runPc' = "divide"
    /\ UNCHANGED <<max_workers, driver, found_elements, quit_called,
                   quit_raised, run_batches, test_results, futures, touched,
                   report>>
    /\ UNCHANGED <<divideVars, discoverVars, batchVars, stepVars, findVars, deepVars>>

\* lines 1061-1081: the batches and the report before the first outcome
DivideAndReport ==
    /\ runPc = "divide"
    /\ run_batches' = DivideElementsIntoBatches(found_elements, Len(driver_pool))
    /\ test_results' = InitialReport(found_elements, run_batches', max_workers)
    /\ runPc' = IF run_batches' = << >> THEN "collect" ELSE "submit"
    /\ UNCHANGED <<max_workers, driver, found_elements, driver_pool,
                   quit_called, quit_raised, futures, touched, exc, report>>
    /\ UNCHANGED <<divideVars, discoverVars, batchVars, stepVars, findVars, deepVars>>

\* the number of futures that have finished, with a result or an exception,
\* and that as_completed has not yielded yet
Waiting(fs) == Cardinality({b \in DOMAIN fs : fs[b].stamp > 0})

\* line 1087 with the futures yielded in the order of their batch ids
YieldsInBatchOrder(fs, b) ==
    /\ fs[b].stamp > 0
    /\ \A c \in DOMAIN fs : c < b => fs[c].taken > 0

\* line 1087, as_completed: the futures that had finished when the iteration
\* began are yielded first, in the order of a set; the others are yielded as
\* they finish
Yields(fs, b) ==
    /\ fs[b].stamp > 0
    /\ \/ fs[b].early
       \/ \A c \in DOMAIN fs \ {b} :
             fs[c].stamp > 0 => ~fs[c].early /\ fs[c].stamp > fs[b].stamp

\* line 1091 with the outcomes of the batch put in front
ExtendInFront(results, outcomes) == outcomes \o results

\* line 1091: test_results['results'].extend(batch_results)
Extend(results, outcomes) == results \o outcomes

\* line 1084: executor.submit of the next batch with its driver; the worker
\* may start at once.  submit raises when no thread can be started: the with
\* statement of line 1082 is then left by the exception.  stamp is the rank of
\* the future, in the order of finishing, among the finished futures not yet
\* yielded; taken is its rank among the yielded ones
Submit ==
    /\ runPc = "submit"
    /\ LET b == Len(futures) + 1
       IN  \/ /\ futures' = Append(futures, [state |-> "running", pos |-> 0,
                                              results |-> << >>,
                                              session |-> PoolDriver(driver_pool, b),
                                              stamp |-> 0, early |-> FALSE,
                                              taken |-> 0])
              /\ runPc' = IF b = Len(run_batches) THEN "iterate" ELSE "submit"
              /\ exc' = exc
           \/ /\ exc' = "can't start new thread"
              /\ runPc' = "shutdown"
              /\ futures' = futures
    /\ UNCHANGED <<max_workers, driver, found_elements, driver_pool,
                   quit_called, quit_raised, run_batches, test_results,
                   touched, report>>
    /\ UNCHANGED <<divideVars, discoverVars, batchVars, stepVars, findVars, deepVars>>

\* _test_element_batch lines 108-134 for the next element of batch b, in the
\* worker thread: the outcome of _test_element_click_with_driver, or the
\* batch_error outcome when the try block raised
TestElement(b, status) ==
    /\ b \in DOMAIN futures
    /\ futures[b].state = "running"
    /\ futures[b].pos < Len(run_batches[b])
    /\ LET element_info == run_batches[b][futures[b].pos + 1]
       IN  /\ futures' = [futures EXCEPT
                             ![b].pos = @ + 1,
                             ![b].results = Append(@, Outcome(element_info, status))]
           /\ touched' = touched \cup {<<futures[b].session, b, element_info>>}
    /\ UNCHANGED <<max_workers, driver, found_elements, driver_pool,
                   quit_called, quit_raised, run_batches, test_results, exc,
                   runPc, report>>
    /\ UNCHANGED <<divideVars, discoverVars, batchVars, stepVars, findVars, deepVars>>

\* lines 135-136: the worker returns batch_results
WorkerReturn(b) ==
    /\ b \in DOMAIN futures
    /\ futures[b].state = "running"
    /\ futures[b].pos = Len(run_batches[b])
    /\ futures' = [futures EXCEPT ![b].state = "done",
                                  ![b].stamp = Waiting(futures) + 1]
    /\ UNCHANGED <<max_workers, driver, found_elements, driver_pool,
                   quit_called, quit_raised, run_batches, test_results,
                   touched, exc, runPc, report>>
    /\ UNCHANGED <<divideVars, discoverVars, batchVars, stepVars, findVars, deepVars>>

\* an exception leaves _test_element_batch: raised outside the try of lines
\* 109-121 (lines 107, 135) or inside the handler of lines 122-134; the future
\* holds it
WorkerRaises(b) ==
    /\ b \in DOMAIN futures
    /\ futures[b].state = "running"
    /\ futures' = [futures EXCEPT ![b].state = "failed",
                                  ![b].stamp = Waiting(futures) + 1]
    /\ UNCHANGED <<max_workers, driver, found_elements, driver_pool,
                   quit_called, quit_raised, run_batches, test_results,
                   touched, exc, runPc, report>>
    /\ UNCHANGED <<divideVars, discoverVars, batchVars, stepVars, findVars, deepVars>>

\* line 1087: the for statement starts the iteration of as_completed, which
\* first looks for the futures that have finished already
AsCompleted ==
    /\ runPc = "iterate"
    /\ futures' = [b \in DOMAIN futures |->
                       [futures[b] EXCEPT !.early = futures[b].state # "running"]]
    /\ runPc' = "collect"
    /\ UNCHANGED <<max_workers, driver, found_elements, driver_pool,
                   quit_called, quit_raised, run_batches, test_results,
                   touched, exc, report>>
    /\ UNCHANGED <<divideVars, discoverVars, batchVars, stepVars, findVars, deepVars>>

\* lines 1087-1095: as_completed yields a finished future; its outcomes are
\* added to the report, or its exception is logged
Collect(b) ==
    /\ runPc = "collect"
    /\ b \in DOMAIN futures
    /\ futures[b].state \in {"done", "failed"}
    /\ Yields(futures, b)
    /\ futures' = [c \in DOMAIN futures |->
           IF c = b
           THEN [futures[b] EXCEPT
                    !.state = IF @ = "done" THEN "collected" ELSE "logged",
                    !.taken = Cardinality({f \in DOMAIN futures :
                                              futures[f].taken > 0}) + 1,
                    !.stamp = 0, !.early = FALSE]
           ELSE IF futures[c].stamp > futures[b].stamp
           THEN [futures[c] EXCEPT !.stamp = @ - 1]
           ELSE futures[c]]
    /\ test_results' =
           IF futures[b].state = "done"
           THEN [test_results EXCEPT
                    !.results = Extend(@, futures[b].results),
                    !.elements_tested = @ + Len(futures[b].results)]
           ELSE test_results
    /\ UNCHANGED <<max_workers, driver, found_elements, driver_pool,
                   quit_called, quit_raised, run_batches, touched, exc, runPc,
                   report>>
    /\ UNCHANGED <<divideVars, discoverVars, batchVars, stepVars, findVars, deepVars>>

\* lines 1096-1105, after as_completed has yielded every future: the tally and
\* the summary
TallyAndSummarise ==
    /\ runPc = "collect"
    /\ Len(futures) = Len(run_batches)
    /\ \A b \in DOMAIN futures : futures[b].state \in {"collected", "logged"}
    /\ LET tallied == Tally(test_results, test_results.results)
       IN  test_results' = [tallied EXCEPT !.summary = GenerateSummary(tallied)]
    /\ runPc' = "close"
    /\ UNCHANGED <<max_workers, driver, found_elements, driver_pool,
                   quit_called, quit_raised, run_batches, futures, touched,
                   exc, report>>
    /\ UNCHANGED <<divideVars, discoverVars, batchVars, stepVars, findVars, deepVars>>

\* lines 1106-1112: the pool is closed and the report returned
CloseAndReturn ==
    /\ runPc = "close"
    /\ \E raising \in SUBSET Range(driver_pool) :
          /\ quit_called' = CloseDriverPool(driver_pool, raising, quit_called)
          /\ quit_raised' = raising
    /\ report' = test_results
    /\ runPc' = "print"
    /\ UNCHANGED <<max_workers, driver, found_elements, driver_pool,
                   run_batches, test_results, futures, touched, exc>>
    /\ UNCHANGED <<divideVars, discoverVars, batchVars, stepVars, findVars, deepVars>>

\* the with statement of line 1082 left by an exception, the executor not
\* waiting for its workers
ShutdownWithoutWait ==
    /\ runPc = "shutdown"
    /\ runPc' = "except"
    /\ UNCHANGED <<max_workers, driver, found_elements, driver_pool,
                   quit_called, quit_raised, run_batches, test_results,
                   futures, touched, exc, report>>
    /\ UNCHANGED <<divideVars, discoverVars, batchVars, stepVars, findVars, deepVars>>

\* the with statement of line 1082 left by an exception: the executor waits
\* for the workers it started
Shutdown ==
    /\ runPc = "shutdown"
    /\ \A b \in DOMAIN futures : futures[b].state # "running"
    /\ runPc' = "except"
    /\ UNCHANGED <<max_workers, driver, found_elements, driver_pool,
                   quit_called, quit_raised, run_batches, test_results,
                   futures, touched, exc, report>>
    /\ UNCHANGED <<divideVars, discoverVars, batchVars, stepVars, findVars, deepVars>>

\* lines 1113-1117: the pool, if the local exists, is closed and the error
\* report returned
HandleRunError ==
    /\ runPc = "except"
    /\ IF driver_pool # NoPool
       THEN \E raising \in SUBSET Range(driver_pool) :
               /\ quit_called' = CloseDriverPool(driver_pool, raising, quit_called)
               /\ quit_raised' = raising
       ELSE UNCHANGED <<quit_called, quit_raised>>
    /\ report' = ErrorReport(exc)
    /\ runPc' = "print"
    /\ UNCHANGED <<max_workers, driver, found_elements, driver_pool,
                   run_batches, test_results, futures, touched, exc>>
    /\ UNCHANGED <<divideVars, discoverVars, batchVars, stepVars, findVars, deepVars>>

\* test_service.py lines 17-19: the report is printed, saved and returned
PrintSaveReturn ==
    /\ runPc = "print"
    /\ runPc' = "returned"
    /\ UNCHANGED <<max_workers, driver, found_elements, driver_pool,
                   quit_called, quit_raised, run_batches, test_results,
                   futures, touched, exc, report>>
    /\ UNCHANGED <<divideVars, discoverVars, batchVars, stepVars, findVars, deepVars>>

NextRun ==
    \/ Construct
    \/ FindClickableElements
    \/ SetupPool
    \/ DivideAndReport
    \/ Submit
    \/ \E b \in 1..MaxSessions,
          status \in {"active_dom_change", "dead_click", "element_not_found",
                      "batch_error"} :
          TestElement(b, status)
    \/ \E b \in 1..MaxSessions : WorkerReturn(b)
    \/ \E b \in 1..MaxSessions : WorkerRaises(b)
    \/ AsCompleted
    \/ \E b \in 1..MaxSessions : Collect(b)
    \/ TallyAndSummarise
    \/ CloseAndReturn
    \/ Shutdown
    \/ HandleRunError
    \/ PrintSaveReturn

SpecRun == InitRun /\ [][NextRun]_vars

-----------------------------------------------------------------------------
(* find_clickable_elements (click_tester.py lines 606-757) step by step.   *)
(* A step ends in one of: "ok" or "found" (it returned, "found" with a     *)
(* descriptor of its own), "empty" (it returned nothing), "caught" or      *)
(* "timeout" (an exception of the step was caught where the code catches   *)
(* it, and the function went on), "raise" (the exception left              *)
(* find_clickable_elements).                                               *)

\* the place after the last member of order equal to s, order's length + 1
\* when s is the last
PositionAfter(order, s) == (CHOOSE k \in DOMAIN order : order[k] = s) + 1

\* the order of lines 610-715 with the deep interaction scan after the
\* carousel extraction
LateScanOrder ==
    <<"load", "scroll", "main_area", "carousel", "deep_scan", "selector", "pointer",
      "listener", "deep_crawler", "iframes", "shadow", "dedup">>

\* the steps in the order of the statements of lines 610-715: the page load
\* and the wait for body (610-617), _scroll_to_bottom (618),
\* _deep_scan_interactions (620), _get_main_content_area (630),
\* _find_carousel_elements (631), _find_regular_clickables (632) with its
\* selector loop, pointer-cursor and event-listener scans (lines 826-849), the
\* DeepCrawler pass (635-653), the iframe scan (655-669), the shadow-DOM scan
\* (671-705), de-duplication and final filter (706-715)
StepOrder ==
    <<"load", "scroll", "deep_scan", "main_area", "carousel", "selector", "pointer",
      "listener", "deep_crawler", "iframes", "shadow", "dedup">>

\* StepAfter with the order LateScanOrder
StepAfterLateScan(s) == LateScanOrder[PositionAfter(LateScanOrder, s)]

\* the step that follows step s
StepAfter(s) == StepOrder[PositionAfter(StepOrder, s)]

\* the steps whose every driver call is inside a try of the step (lines
\* 759-789, 791-849, 852-876, 878-906, 908-922, 635-653, 671-704)
GuardedSteps ==
    {"main_area", "carousel", "selector", "pointer", "listener", "deep_crawler", "shadow"}

-----------------------------------------------------------------------------
(* Specification SpecSteps: one run of find_clickable_elements on a page   *)
(* that grows up to MaxGrowth times while it is scrolled, or at every      *)
(* scroll (an endless feed), and holds up to MaxIframes iframes; at most   *)
(* MaxFaults exceptions are caught in a run.  FairSteps is SpecSteps with  *)
(* the run going on while it has a step to take.                           *)

InitSteps ==
    /\ stepPc = "load"
    /\ step_log = << >>
    /\ height \in -1..MaxGrowth
    /\ iframes = 0
    /\ context = "top"
    /\ step_found = {}
    /\ revealed = FALSE
    /\ IdleDivide
    /\ IdleDiscover
    /\ IdleBatch
    /\ IdleRun
    /\ IdleFind
    /\ IdleDeep

\* the end of a step with the given outcome: the step is logged; an
\* exception that nothing catches ends the function
EndStep(step, outcome, next) ==
    /\ step_log' = Append(step_log, <<step, outcome>>)
    /\ stepPc' = IF outcome = "raise" THEN "raised" ELSE next
    /\ step_found' = IF outcome = "found" THEN step_found \cup {step} ELSE step_found

\* fewer than MaxFaults exceptions were caught so far in the run of
\* find_clickable_elements
MayCatch ==
    Cardinality({k \in DOMAIN step_log : step_log[k][2] \in {"caught", "timeout"}})
        < MaxFaults

\* lines 607-617: driver.get and the wait for body; only TimeoutException is
\* caught (line 615)
Load(outcome) ==
    /\ stepPc = "load"
    /\ outcome \in {"ok", "timeout", "raise"}
    /\ outcome = "timeout" => MayCatch
    /\ EndStep("load", outcome, StepAfter("load"))
    /\ UNCHANGED <<height, iframes, context, revealed>>
    /\ UNCHANGED <<divideVars, discoverVars, batchVars, runVars, findVars, deepVars>>

\* _scroll_to_bottom, lines 592-604, one iteration of its loop, which counts
\* no iterations: the page has grown since the last scroll (new_height differs
\* from last_height; on an endless page the two values -1 and -2 of height
\* tell one reading from the next), or it has not and the loop ends with the
\* scroll back to the top; no execute_script of the function is in a try
ScrollToBottom(outcome) ==
    /\ stepPc = "scroll"
    /\ outcome \in {"ok", "raise"}
    /\ IF outcome = "ok" /\ height # 0
       THEN /\ height' = IF height > 0 THEN height - 1 ELSE -3 - height
            /\ UNCHANGED <<stepPc, step_log, step_found>>
       ELSE /\ EndStep("scroll", outcome, StepAfter("scroll"))
            /\ height' = height
    /\ UNCHANGED <<iframes, context, revealed>>
    /\ UNCHANGED <<divideVars, discoverVars, batchVars, runVars, findVars, deepVars>>

\* _deep_scan_interactions, lines 1128-1194: the first reading of the body
\* (line 1146) is outside every try; the selector loop, the keyboard part and
\* the scroll part each catch their exceptions
DeepScanInteractions(outcome) ==
    /\ stepPc = "deep_scan"
    /\ outcome \in {"ok", "caught", "raise"}
    /\ outcome = "caught" => MayCatch
    /\ EndStep("deep_scan", outcome, StepAfter("deep_scan"))
    /\ revealed' = (outcome # "raise")
    /\ UNCHANGED <<height, iframes, context>>
    /\ UNCHANGED <<divideVars, discoverVars, batchVars, runVars, findVars, deepVars>>

\* a guarded step: _get_main_content_area (line 630), _find_carousel_elements
\* (631), the three scans of _find_regular_clickables (632), the DeepCrawler
\* pass (635-653), the shadow-DOM scan (671-705).  DeepCrawler.crawl_page
\* (deep_crawler.py lines 19-24) starts with driver.get(url): unless that call
\* is the one that raises, the page is loaded afresh and what the earlier
\* steps revealed is gone
GuardedStep(step, outcome) ==
    /\ stepPc = step
    /\ step \in GuardedSteps
    /\ outcome \in (IF step # "main_area" THEN {"found", "empty", "caught"}
                                          ELSE {"ok", "caught"})
    /\ outcome = "caught" => MayCatch
    /\ EndStep(step, outcome, StepAfter(step))
    /\ revealed' \in IF step # "deep_crawler" THEN {revealed}
                      ELSE IF outcome = "caught" THEN {revealed, FALSE}
                      ELSE {FALSE}
    /\ UNCHANGED <<height, iframes, context>>
    /\ UNCHANGED <<divideVars, discoverVars, batchVars, runVars, findVars, deepVars>>

\* line 656: find_elements for the iframes, outside every try
EnumerateIframes(n, outcome) ==
    /\ stepPc = "iframes"
    /\ outcome \in {"ok", "raise"}
    /\ IF outcome = "ok" /\ n > 0
       THEN /\ iframes' = n
            /\ stepPc' = "iframe"
            /\ UNCHANGED <<step_log, step_found>>
       ELSE /\ EndStep("iframes", IF outcome = "ok" THEN "empty" ELSE outcome,
                       StepAfter("iframes"))
            /\ iframes' = iframes
    /\ UNCHANGED <<height, context, revealed>>
    /\ UNCHANGED <<divideVars, discoverVars, batchVars, runVars, findVars, deepVars>>

\* lines 657-668 for one iframe: the scan inside the frame and the switch
\* back; an exception is caught at line 666 and the handler switches back at
\* line 668, where an exception is caught by nothing
ScanIframe(outcome) ==
    /\ stepPc = "iframe"
    /\ outcome \in {"found", "empty", "caught", "raise"}
    /\ outcome = "caught" => MayCatch
    /\ iframes' = iframes - 1
    /\ context' = IF outcome = "raise" THEN "iframe" ELSE "top"
    /\ step_log' = Append(step_log, <<"iframes", outcome>>)
    /\ step_found' = IF outcome = "found" THEN step_found \cup {"iframes"} ELSE step_found
    /\ stepPc' = IF outcome = "raise" THEN "raised"
                 ELSE IF iframes' = 0 THEN StepAfter("iframes") ELSE "iframe"
    /\ UNCHANGED <<height, revealed>>
    /\ UNCHANGED <<divideVars, discoverVars, batchVars, runVars, findVars, deepVars>>

\* lines 706-717: de-duplication and the final filter keep a descriptor of
\* every step that found one (the descriptors of two steps are different
\* elements here); an empty list starts the fallback scan
DeduplicateFound ==
    /\ stepPc = "dedup"
    /\ EndStep("dedup", "ok", IF step_found = {} THEN "fallback" ELSE "returned")
    /\ UNCHANGED <<height, iframes, context, revealed>>
    /\ UNCHANGED <<divideVars, discoverVars, batchVars, runVars, findVars, deepVars>>

\* lines 717-757: the fallback scan, every driver call of which is in a try,
\* and the return
FallbackScan(outcome) ==
    /\ stepPc = "fallback"
    /\ outcome \in {"found", "empty", "caught"}
    /\ outcome = "caught" => MayCatch
    /\ EndStep("fallback", outcome, "returned")
    /\ UNCHANGED <<height, iframes, context, revealed>>
    /\ UNCHANGED <<divideVars, discoverVars, batchVars, runVars, findVars, deepVars>>

StepOutcomes == {"ok", "found", "empty", "caught", "timeout", "raise"}

NextSteps ==
    \/ \E outcome \in StepOutcomes : Load(outcome)
    \/ \E outcome \in StepOutcomes : ScrollToBottom(outcome)
    \/ \E outcome \in StepOutcomes : DeepScanInteractions(outcome)
    \/ \E step \in GuardedSteps, outcome \in StepOutcomes : GuardedStep(step, outcome)
    \/ \E n \in 0..MaxIframes, outcome \in StepOutcomes : EnumerateIframes(n, outcome)
    \/ \E outcome \in StepOutcomes : ScanIframe(outcome)
    \/ DeduplicateFound
    \/ \E outcome \in StepOutcomes : FallbackScan(outcome)

SpecSteps == InitSteps /\ [][NextSteps]_vars

\* the thread of find_clickable_elements is not suspended for ever: while the
\* function has a step to take it takes one
FairSteps == SpecSteps /\ WF_vars(NextSteps)

-----------------------------------------------------------------------------
(* The re-location of an element from its descriptor:
   _find_element_by_info_with_driver, click_tester.py 256-349. *)

\* the strategies in the order of the code (lines 258, 268, 279, 294, 304,
\* 316, 328, 338)
Strategies ==
    <<"xpath", "css_selector", "tag_class_text", "id",
      "partial_text", "class_only", "data_testid", "aria_label">>

\* descriptors as extract_element_info builds them (with a css_selector) and
\* as extract_element_info_for_hidden builds them (without one); both strip
\* the text, and both hold a string under every other key
FindDescriptors ==
    LET info(x, c, cl, t, o) ==
            [xpath        |-> x,
             css_selector |-> c,
             tag_name     |-> "a",
             class_names  |-> cl,
             text         |-> t,
             id           |-> IF o THEN "contact" ELSE "",
             data_testid  |-> IF o THEN "contact-link" ELSE "",
             aria_label   |-> IF o THEN "Contact us" ELSE ""]
        hidden(d) == [k \in DOMAIN d \ {"css_selector"} |-> d[k]]
        built == {info(x, c, cl, t, o) :
                    x \in {"/html/body/a[4]", "xpath_unavailable"},
                    c \in {"body > a.nav-link", "css_selector_unavailable"},
                    cl \in {"nav-link", " "},
                    t \in {"Contact", ""},
                    o \in BOOLEAN}
    IN  built \cup {hidden(d) : d \in {b \in built : b.xpath # "xpath_unavailable"}}

\* what the driver answers to one search: an exception somewhere in the try
\* block of the strategy, or the elements that match, in document order
DriverAnswers ==
    LET matches == {[displayed |-> TRUE,  tag_name |-> "a",   text |-> "Contact"],
                    [displayed |-> FALSE, tag_name |-> "a",   text |-> "Contact"],
                    [displayed |-> TRUE,  tag_name |-> "div", text |-> "Contact"],
                    [displayed |-> TRUE,  tag_name |-> "a",   text |-> "Contact us"]}
        lists == {<< >>} \cup {<<e>> : e \in matches}
                         \cup {<<e, f>> : e \in matches, f \in matches}
    IN  {[raises |-> TRUE, elements |-> << >>]}
            \cup {[raises |-> FALSE, elements |-> es] : es \in lists}

\* the condition under which a strategy runs (lines 260, 270, 283, 296, 306,
\* 318, 330, 340); class_names.strip() is '' exactly when every character of
\* the class string is a blank
Applicable(s, info) ==
    LET value == Get(info, s, None)
        classes == StripSpaces(info.class_names)
    IN  CASE s = "xpath" -> value \notin {None, "", "xpath_unavailable"}
          [] s = "css_selector" -> value \notin {None, "", "css_selector_unavailable"}
          [] s = "tag_class_text" -> info.tag_name # "" /\ classes # ""
          [] s = "partial_text" -> info.tag_name # "" /\ info.text # ""
          [] s = "class_only" -> classes # ""
          [] OTHER -> value \notin {None, ""}

\* lines 263, 274, 287 with the tag of a css_selector match left unchecked
AcceptsAnyTag(s, info, el) ==
    /\ el.displayed
    /\ s = "tag_class_text" => (info.text = "" \/ el.text = info.text)

\* the test an element passes to be returned (lines 263, 274, 287, 298, 310,
\* 322, 332, 342)
Accepts(s, info, el) ==
    /\ el.displayed
    /\ s = "css_selector" => el.tag_name = info.tag_name
    /\ s = "tag_class_text" => (info.text = "" \/ el.text = info.text)

\* the element a strategy returns, as a list of at most one element:
\* find_element gives the first match only and raises without one, the loops
\* over find_elements return the first element that passes; any exception is
\* caught by the try block of the strategy
Found(s, info, answer) ==
    LET es == answer.elements
        passing == {k \in DOMAIN es : Accepts(s, info, es[k])}
    IN  IF answer.raises THEN << >>
        ELSE IF s \in {"xpath", "id", "data_testid", "aria_label"}
        THEN IF 1 \in passing THEN <<es[1]>> ELSE << >>
        ELSE IF passing = {} THEN << >>
        ELSE <<es[CHOOSE k \in passing : \A j \in passing : k <= j]>>

InitFind ==
    /\ find_info \in FindDescriptors
    /\ find_pc = 1
    /\ find_log = << >>
    /\ find_answer = << >>
    /\ find_result = << >>
    /\ IdleDivide
    /\ IdleDiscover
    /\ IdleBatch
    /\ IdleRun
    /\ IdleSteps
    /\ IdleDeep

\* one strategy of the chain: skipped when its condition fails, else run
\* inside its own try block; lines 280-282, between the blocks, read keys
\* that every descriptor holds as strings
Strategy(n) ==
    /\ find_pc = n
    /\ n \in DOMAIN Strategies
    /\ IF Applicable(Strategies[n], find_info)
       THEN \E answer \in DriverAnswers :
              LET located == Found(Strategies[n], find_info, answer)
                  verdict == IF located # << >> THEN "found"
                             ELSE IF answer.raises THEN "raised" ELSE "none"
              IN  /\ find_answer' = answer
                  /\ find_log' = Append(find_log, <<Strategies[n], verdict>>)
                  /\ find_result' = located
                  /\ find_pc' = IF located # << >> THEN Len(Strategies) + 2
                                ELSE n + 1
       ELSE /\ find_pc' = n + 1
            /\ UNCHANGED <<find_answer, find_log, find_result>>
    /\ UNCHANGED <<find_info, divideVars, discoverVars, batchVars, runVars, stepVars, deepVars>>

\* lines 345-346: no strategy returned an element
ReturnNone ==
    /\ find_pc = Len(Strategies) + 1
    /\ find_pc' = Len(Strategies) + 2
    /\ find_result' = << >>
    /\ UNCHANGED <<find_info, find_log, find_answer>>
    /\ UNCHANGED <<divideVars, discoverVars, batchVars, runVars, stepVars, deepVars>>

NextFind ==
    \/ \E n \in DOMAIN Strategies : Strategy(n)
    \/ ReturnNone

SpecFind == InitFind /\ [][NextFind]_vars

-----------------------------------------------------------------------------
(* Specification SpecDeep: DeepCrawler.recursive_scan, deep_crawler.py     *)
(* lines 26-38 and 100-111, after crawl_page has loaded a page whose       *)
(* documents, "top" and "inner", hold up to MaxFrames iframes each; an     *)
(* iframe may show the document that embeds it.  At most MaxFaults of the  *)
(* unguarded driver calls raise in a crawl.                                *)

\* line 11 with a default one larger
max_depth_raised == 2 + 1

\* line 11; click_tester.py line 636 passes the same value
max_depth == 2

\* the document the session shows when it is switched to the frame reached
\* from the top document by the iframes of the given indexes
RECURSIVE DocumentAt(_)
DocumentAt(path) ==
    IF path = << >> THEN "top"
    ELSE deep_page[DocumentAt(SubSeq(path, 1, Len(path) - 1))][path[Len(path)]]

\* lines 21-23: the page is loaded in the top context and recursive_scan(0)
\* is called
InitDeep ==
    /\ deep_page \in
          LET Documents == {"top", "inner"}
          IN  [Documents -> UNION {[1..n -> Documents] : n \in 0..MaxFrames}]
    /\ deep_stack = << [depth |-> 0, pc |-> "enter", started |-> << >>,
                        frames |-> 0, idx |-> 1] >>
    /\ deep_context = << >>
    /\ deep_log = {}
    /\ deep_result = "running"
    /\ IdleDivide
    /\ IdleDiscover
    /\ IdleBatch
    /\ IdleRun
    /\ IdleSteps
    /\ IdleFind

\* the innermost call of recursive_scan ends, by its return or by an
\* exception.  The outermost call ends the crawl; a nested call was made at
\* line 107, inside the try of scan_iframes, whose next statement is
\* switch_to.default_content() either way (lines 108 and 111) and whose loop
\* goes on with the next iframe
Leave(how) ==
    IF Len(deep_stack) = 1
    THEN /\ deep_stack' = << >>
         /\ deep_result' = how
         /\ UNCHANGED deep_context
    ELSE /\ deep_stack' = [SubSeq(deep_stack, 1, Len(deep_stack) - 1)
                              EXCEPT ![Len(deep_stack) - 1].idx = @ + 1]
         /\ deep_context' = << >>
         /\ UNCHANGED deep_result

\* recursive_scan, lines 27-34, and line 102: the depth test, then the
\* interaction steps and the listing of the iframes of the document the
\* session shows.  execute_script (line 45), find_element (line 69) and
\* find_elements (line 102) are in no try of the call
RecursiveScan(outcome) ==
    /\ deep_stack # << >>
    /\ outcome \in {"ok", "raise"}
    /\ LET call == deep_stack[Len(deep_stack)]
           faults == Cardinality({e \in deep_log : e.step = "interact" /\ e.raised})
       IN  /\ call.pc = "enter"
           /\ IF call.depth > max_depth
              THEN /\ outcome = "ok"
                   /\ Leave("returned")
                   /\ UNCHANGED deep_log
              ELSE /\ deep_log' = deep_log \cup
                         {[depth |-> call.depth, step |-> "interact",
                           started |-> call.started, at |-> deep_context,
                           raised |-> outcome = "raise"]}
                   /\ IF outcome = "raise"
                      THEN faults < MaxFaults /\ Leave("raised")
                      ELSE /\ deep_stack' =
                                 [deep_stack EXCEPT ![Len(deep_stack)] =
                                     [call EXCEPT !.pc = "iframes",
                                        !.frames = Len(deep_page[DocumentAt(deep_context)])]]
                           /\ UNCHANGED <<deep_context, deep_result>>
    /\ UNCHANGED deep_page
    /\ UNCHANGED <<divideVars, discoverVars, batchVars, runVars, stepVars, findVars>>

\* scan_iframes, lines 103-111, one turn of the loop up to the nested call:
\* switch_to.frame finds the iframe element when the session still shows the
\* document the element was listed in, and raises otherwise (line 109)
ScanIframes ==
    /\ deep_stack # << >>
    /\ LET call == deep_stack[Len(deep_stack)]
       IN  /\ call.pc = "iframes"
           /\ call.idx <= call.frames
           /\ deep_log' = deep_log \cup
                 {[depth |-> call.depth, step |-> "switch",
                   started |-> call.started, at |-> deep_context,
                   raised |-> deep_context # call.started]}
           /\ IF deep_context = call.started
              THEN /\ deep_context' = Append(deep_context, call.idx)
                   /\ deep_stack' = Append(deep_stack,
                         [depth |-> call.depth + 1, pc |-> "enter",
                          started |-> deep_context', frames |-> 0, idx |-> 1])
              ELSE /\ deep_context' = << >>
                   /\ deep_stack' = [deep_stack EXCEPT ![Len(deep_stack)].idx = @ + 1]
    /\ UNCHANGED <<deep_page, deep_result>>
    /\ UNCHANGED <<divideVars, discoverVars, batchVars, runVars, stepVars, findVars>>

\* recursive_scan, lines 36-38, after the loop of scan_iframes: the pointer
\* and selector searches, which catch their exceptions (lines 115-130 and
\* 144-154), run against the document the session shows; the call returns
FindClickables ==
    /\ deep_stack # << >>
    /\ LET call == deep_stack[Len(deep_stack)]
       IN  /\ call.pc = "iframes"
           /\ call.idx > call.frames
           /\ deep_log' = deep_log \cup
                 {[depth |-> call.depth, step |-> "find",
                   started |-> call.started, at |-> deep_context,
                   raised |-> FALSE]}
           /\ Leave("returned")
    /\ UNCHANGED deep_page
    /\ UNCHANGED <<divideVars, discoverVars, batchVars, runVars, stepVars, findVars>>

NextDeep ==
    \/ \E outcome \in StepOutcomes : RecursiveScan(outcome)
    \/ ScanIframes
    \/ FindClickables

SpecDeep == InitDeep /\ [][NextDeep]_vars

\* the thread of the crawl is not suspended for ever
FairDeep == SpecDeep /\ WF_vars(NextDeep)

-----------------------------------------------------------------------------
(* Properties of _divide_elements_into_batches. *)


\* ceil(n / w)
CeilDiv(n, w) == (n + w - 1) \div w

\* C1: for a list of N descriptors and W >= 1 workers the batches returned,
\* concatenated in batch order, are exactly the input list, and no batch holds
\* more than ceil(N/W) descriptors.
C1_BatchPartition ==
    dividePc = "returned" =>
        /\ Flatten(batches) = elements
        /\ \A k \in DOMAIN batches : Len(batches[k]) <= CeilDiv(Len(elements), num_batches)

\* a list whose length is no multiple of the worker count has been divided
C1_Witness ==
    /\ dividePc = "returned"
    /\ Len(elements) = 4
    /\ num_batches = 3
    /\ Len(batches) = 3

-----------------------------------------------------------------------------
(* Properties of the fingerprint and of the de-duplication. *)

\* bx extends the locator path ax by exactly one nesting level
ExtendsByOneLevel(bx, ax) ==
    StartsWith(bx, ax) /\ Count(bx, "/") = Count(ax, "/") + 1

\* C6: the list find_clickable_elements returns, on the normal path and on the
\* fallback path, holds only descriptors the extraction produced and no two
\* descriptors with the same fingerprint.
C6_DedupSound ==
    discPc \in {"fallback", "returned"} =>
        /\ Range(final_elements) \subseteq extracted
        /\ \A a, b \in DOMAIN final_elements :
              final_elements[a].unique_id = final_elements[b].unique_id => a = b

\* two collected descriptors shared a fingerprint and one of them was returned
C6_Witness ==
    /\ discPc = "returned"
    /\ Len(clickable_elements) = 2
    /\ clickable_elements[1].unique_id = clickable_elements[2].unique_id
    /\ Len(deduplicated_elements) = 2
    /\ Len(final_elements) = 1

\* the nested pair of the scenario: div.card holding a.card, same text
ScenarioParent == Node("/html/body/div[1]", "div", "card", "Same Text", "")
ScenarioChild == Node("/html/body/div[1]/a[1]", "a", "card", "Same Text", "")

IsScenarioPair(infos) ==
    /\ Len(infos) = 2
    /\ \E a, b \in 1..2 :
          /\ a # b
          /\ infos[a] \in {RegularInfo[ScenarioParent], HiddenInfo[ScenarioParent]}
          /\ infos[b] \in {RegularInfo[ScenarioChild], HiddenInfo[ScenarioChild]}

\* C7 as stated: a descriptor B one nesting level below a kept descriptor A with
\* the same text or the same class-name string is absent from the output of
\* advanced_deduplication, and of the scenario pair exactly one is kept.
C7_AsStated ==
    discPc \in {"fallback", "returned"} =>
        /\ \A a, b \in DOMAIN clickable_elements :
              LET A == clickable_elements[a]
                  B == clickable_elements[b]
              IN  ( /\ A \in Range(deduplicated_elements)
                    /\ ExtendsByOneLevel(B.xpath, A.xpath)
                    /\ (A.text = B.text \/ A.class_names = B.class_names) )
                  => B \notin Range(deduplicated_elements)
        /\ IsScenarioPair(clickable_elements) => Len(deduplicated_elements) = 1

\* C7 amended: the same, for a text or a class-name string that is identical
\* and not empty.
C7_NestedDuplicate ==
    discPc \in {"fallback", "returned"} =>
        /\ \A a, b \in DOMAIN clickable_elements :
              LET A == clickable_elements[a]
                  B == clickable_elements[b]
              IN  ( /\ A \in Range(deduplicated_elements)
                    /\ ExtendsByOneLevel(B.xpath, A.xpath)
                    /\ \/ (A.text # "" /\ A.text = B.text)
                       \/ (A.class_names # "" /\ A.class_names = B.class_names) )
                  => B \notin Range(deduplicated_elements)
        /\ IsScenarioPair(clickable_elements) => Len(deduplicated_elements) = 1

\* a child with its parent's text and another class was discarded, the parent kept
C7_Witness ==
    /\ discPc = "returned"
    /\ Len(clickable_elements) = 2
    /\ \E a, b \in 1..2 :
          /\ ExtendsByOneLevel(clickable_elements[b].xpath, clickable_elements[a].xpath)
          /\ clickable_elements[a].text = "Same Text"
          /\ clickable_elements[b].text = "Same Text"
          /\ clickable_elements[a].class_names # clickable_elements[b].class_names
          /\ deduplicated_elements = << clickable_elements[a] >>

\* C8: two descriptors that agree on tag name, id, class-name string and the
\* text cut to 50 characters have the same fingerprint, whatever their locator
\* path, href and carousel flag.
C8_FingerprintFunction ==
    \A a, b \in DOMAIN clickable_elements :
        LET d1 == clickable_elements[a]
            d2 == clickable_elements[b]
        IN  ( /\ d1.tag_name = d2.tag_name
              /\ d1.id = d2.id
              /\ d1.class_names = d2.class_names
              /\ Slice(d1.text, 0, 50) = Slice(d2.text, 0, 50) )
            => d1.unique_id = d2.unique_id

\* a carousel descriptor and an ordinary one at another locator path, with texts
\* that differ behind the 50th character, carry one fingerprint
C8_Witness ==
    /\ Len(clickable_elements) = 2
    /\ "is_carousel_element" \in DOMAIN clickable_elements[1]
    /\ "is_carousel_element" \notin DOMAIN clickable_elements[2]
    /\ clickable_elements[1].xpath # clickable_elements[2].xpath
    /\ clickable_elements[1].text # clickable_elements[2].text
    /\ clickable_elements[1].unique_id = clickable_elements[2].unique_id

-----------------------------------------------------------------------------
(* Properties of _test_element_batch and _test_element_click_with_driver.  *)
(* In a state with pc "appended" or "returned", result is the outcome of   *)
(* batch[i] and hist the history of its test.                              *)

Tested == pc \in {"appended", "returned"}

\* C2: when a click was performed and observed, the status is the first match
\* of: URL changed - active_navigation; title changed - active_title_change;
\* the wait saw the DOM change - active_dom_change; a modal or dropdown found -
\* active_ui_change; otherwise dead_click.
C2_ClassificationPriority ==
    (Tested /\ hist.clicks > 0 /\ hist.observed) =>
        LET url_changed == page.url # initial.url
            title_changed == page.title # initial.title
        IN  /\ url_changed => result.click_status = "active_navigation"
            /\ (~url_changed /\ title_changed) => result.click_status = "active_title_change"
            /\ (~url_changed /\ ~title_changed /\ dom_changed)
                  => result.click_status = "active_dom_change"
            /\ (~url_changed /\ ~title_changed /\ ~dom_changed /\ hist.overlay_found)
                  => result.click_status = "active_ui_change"
            /\ (~url_changed /\ ~title_changed /\ ~dom_changed /\ ~hist.overlay_found)
                  => result.click_status = "dead_click"

\* URL, title and DOM changed, a modal is open: the status is active_navigation
C2_Witness ==
    /\ Tested /\ hist.clicks > 0 /\ hist.observed
    /\ page.url # initial.url
    /\ page.title # initial.title
    /\ dom_changed
    /\ hist.overlay_found
    /\ result.click_status = "active_navigation"

C4_AsStated ==
    ( /\ Tested /\ hist.clicks > 0 /\ hist.observed
      /\ hist.effects = {} /\ hist.late = {}
      /\ \/ NodeOf(batch[i]).href = "javascript:void(0)"
         \/ NodeOf(batch[i]).onclick = "void(0)" )
    => /\ result.click_status = "dead_click"
       /\ result.error_message = SuspiciousMessage

\* the only thing the page did after the click was to insert a modal node; URL
\* and title are as before
ModalInserted ==
    /\ Tested /\ hist.clicks > 0 /\ hist.observed
    /\ hist.effects \cup hist.late = {"modal"}
    /\ page.url = initial.url
    /\ page.title = initial.title

\* C5 as stated: a click that makes the page insert a modal node, URL and title
\* unchanged, has the status active_ui_change with new_elements_appeared true.
C5_AsStated ==
    ModalInserted =>
        result.click_status = "active_ui_change" /\ result.new_elements_appeared

\* C5 amended: such a click has the status active_dom_change, with
\* new_elements_appeared false, when the node is inserted while the bounded wait
\* polls (the wait not ending on an exception); it has the status
\* active_ui_change with new_elements_appeared true when the wait saw no change
\* and the search after the settle delay finds the node.
C5_ModalTrigger ==
    ModalInserted =>
        /\ ("modal" \in hist.effects /\ ~hist.wait_raised) =>
              result.click_status = "active_dom_change" /\ ~result.new_elements_appeared
        /\ (~dom_changed /\ hist.overlay_found) =>
              result.click_status = "active_ui_change" /\ result.new_elements_appeared

\* the modal was inserted during the wait, nothing else touched the body
C5_Witness ==
    /\ ModalInserted
    /\ "modal" \in hist.effects
    /\ ~hist.wait_raised
    /\ ~hist.normalized
    /\ hist.overlay_found
    /\ result.click_status = "active_dom_change"

\* C9 as stated: every recorded outcome has one of the eight statuses.
C9_AsStated ==
    \A k \in DOMAIN batch_results :
        batch_results[k].click_status \in
            {"active_navigation", "active_title_change", "active_dom_change",
             "active_ui_change", "dead_click", "element_not_found", "click_intercepted",
             "error"}

\* C9 amended: every recorded outcome has one of the eight statuses or
\* not_clickable or batch_error.
C9_StatusSet ==
    \A k \in DOMAIN batch_results :
        batch_results[k].click_status \in
            {"active_navigation", "active_title_change", "active_dom_change",
             "active_ui_change", "dead_click", "element_not_found", "click_intercepted",
             "error", "not_clickable", "batch_error"}

\* a batch returned an outcome not_clickable and an outcome batch_error
C9_Witness ==
    /\ pc = "returned"
    /\ \E j, k \in DOMAIN batch_results :
          /\ batch_results[j].click_status = "not_clickable"
          /\ batch_results[k].click_status = "batch_error"

\* C10: an exception that ends the test of an element (in the navigation before
\* the test, the readings, the location, the click or the observation) leaves
\* one outcome with an error status for that element; the batch goes on: there
\* is one outcome per element tested so far, in the order of the batch, and a
\* batch of n descriptors returns n outcomes.
C10_FailureIsolation ==
    /\ Len(batch_results) = IF Tested THEN i ELSE i - 1
    /\ \A k \in DOMAIN batch_results : batch_results[k].element_info = batch[k]
    /\ (Tested /\ hist.raised) =>
          /\ ~StartsWith(batch_results[i].click_status, "active")
          /\ batch_results[i].click_status # "dead_click"
    /\ pc = "returned" => Len(batch_results) = Len(batch)

\* the first test of a batch of two ended on an exception and the second test
\* was made and classified
C10_Witness ==
    /\ pc = "returned"
    /\ Len(batch) = 2
    /\ batch_results[1].click_status \in {"error", "batch_error"}
    /\ hist.observed
    /\ batch_results[2].click_status = "dead_click"

-----------------------------------------------------------------------------
(* Properties of run_and_report and run_comprehensive_test_concurrent.     *)
(* In a state with runPc "print" or "returned", report is what             *)
(* run_comprehensive_test_concurrent returned; runPc "raised" is an        *)
(* exception on its way to the caller of run_and_report.                   *)

RunReturned == runPc \in {"print", "returned"}

IsErrorReport(r) == "error" \in DOMAIN r

\* the descriptors of the outcomes of a report, as a bag: descriptor -> count
OutcomesOf(r, element_info) ==
    Cardinality({k \in DOMAIN r.results : r.results[k].element_info = element_info})

\* C11: a returned report without an error field has elements_tested equal to
\* total_elements_found and exactly one outcome for each discovered descriptor,
\* and a run in which the worker of a batch failed returns an error report.
C11_AsStated ==
    RunReturned =>
        /\ ~IsErrorReport(report) =>
               /\ report.elements_tested = report.total_elements_found
               /\ Len(report.results) = Len(found_elements)
               /\ \A element_info \in Range(found_elements) :
                      OutcomesOf(report, element_info) = 1
        /\ (\E b \in DOMAIN futures : futures[b].state = "logged") =>
               IsErrorReport(report)

\* the click statuses that count as active
ActiveStatuses ==
    {"active_navigation", "active_title_change", "active_dom_change", "active_ui_change"}

CountStatus(r, S) ==
    Cardinality({k \in DOMAIN r.results : r.results[k].click_status \in S})

CompletedReport == RunReturned /\ ~IsErrorReport(report)

\* C12: in a completed report active_clicks is the number of outcomes with an
\* active status, dead_clicks the number of dead_click outcomes, errors the
\* number of all other outcomes, and the three add up to elements_tested, which
\* is the number of entries of results.
C12_TallyPartition ==
    CompletedReport =>
        /\ report.active_clicks = CountStatus(report, ActiveStatuses)
        /\ report.dead_clicks = CountStatus(report, {"dead_click"})
        /\ report.errors = Len(report.results)
                             - CountStatus(report, ActiveStatuses \cup {"dead_click"})
        /\ report.active_clicks + report.dead_clicks + report.errors
             = report.elements_tested
        /\ report.elements_tested = Len(report.results)

\* a completed report that counts an active, a dead and an error outcome
C12_Witness ==
    /\ CompletedReport
    /\ report.active_clicks = 1
    /\ report.dead_clicks = 1
    /\ report.errors = 1
    /\ \E k \in DOMAIN report.results : report.results[k].click_status = "element_not_found"

\* C13: when run_comprehensive_test_concurrent has returned and the pool was
\* created, quit() has been called on every session of the pool, on the success
\* path and on the error path, also when the quit() of some session raised.
C13_PoolClosed ==
    (RunReturned /\ driver_pool # NoPool) => Range(driver_pool) \subseteq quit_called

\* an error report of a run that created a pool of two sessions, the quit() of
\* the first of which raised
C13_Witness ==
    /\ RunReturned
    /\ IsErrorReport(report)
    /\ driver_pool # NoPool
    /\ Len(driver_pool) >= 2
    /\ driver_pool[1] \in quit_raised
    /\ driver_pool[2] \in quit_called

\* C14: no session is used by two worker threads: the batches are bound to
\* pairwise distinct sessions of the pool, there are never more batches than
\* pooled sessions, every element test of a batch runs on the session the
\* batch is bound to, and the discovery session is used by no worker.
C14_SessionExclusive ==
    /\ \A t1, t2 \in touched : t1[1] = t2[1] => t1[2] = t2[2]
    /\ \A t \in touched :
          IF t[2] = CoordinatingThread
          THEN t[1] = MainSession
          ELSE /\ t[1] # MainSession
               /\ t[2] \in DOMAIN futures
               /\ t[1] = futures[t[2]].session
    /\ \A b1, b2 \in DOMAIN futures :
          b1 # b2 => futures[b1].session # futures[b2].session
    /\ \A b \in DOMAIN futures : futures[b].session \in Range(driver_pool)
    /\ driver_pool # NoPool => Len(run_batches) <= Len(driver_pool)

\* two workers in the middle of their batches at once, each after an element
\* test on its own session
C14_Witness ==
    /\ Len(futures) >= 2
    /\ futures[1].state = "running"
    /\ futures[2].state = "running"
    /\ \E t1, t2 \in touched : t1[2] = 1 /\ t2[2] = 2 /\ t1[1] # t2[1]
    /\ Len(run_batches[1]) > futures[1].pos

\* the descriptors a worker thread ran an element test on
TestedByWorkers == {t[3] : t \in {u \in touched : u[2] # CoordinatingThread}}

\* C15: with k of the max_workers sessions started, a run with k >= 1 goes on
\* with those k sessions and tests every discovered descriptor, and a run with
\* k = 0 returns an error report and tests nothing.
C15_AsStated ==
    (RunReturned /\ driver_pool # NoPool) =>
        IF Len(driver_pool) = 0
        THEN IsErrorReport(report) /\ TestedByWorkers = {}
        ELSE ~IsErrorReport(report) =>
                /\ Range(found_elements) \subseteq TestedByWorkers
                /\ \A b \in DOMAIN futures : futures[b].session \in Range(driver_pool)

\* C16: no failure of a run reaches the caller of the run as an exception: the
\* caller receives a full report or a report with an error field.
C16_AsStated ==
    /\ runPc # "raised"
    /\ runPc = "returned" =>
          \/ IsErrorReport(report)
          \/ report.summary # EmptyDict

\* the size the partitioning rule gives batch b (from 1) of nb over total
RuleSize(total, nb, b) == (total \div nb) + (IF b <= total % nb THEN 1 ELSE 0)

\* the report names the batches of the run
ReportDescribesBatches ==
    /\ test_results.concurrent_info.batches_created = Len(run_batches)
    /\ test_results.concurrent_info.batch_sizes
         = [b \in DOMAIN run_batches |-> Len(run_batches[b])]

\* C17 as stated: the descriptor list is divided into exactly max_workers
\* contiguous batches, batch b of total // max_workers descriptors plus one for
\* the first total mod max_workers batches, and batches_created and batch_sizes
\* of the report describe these batches.
C17_AsStated ==
    test_results # NoReport =>
        /\ Len(run_batches) = max_workers
        /\ \A b \in DOMAIN run_batches :
              Len(run_batches[b]) = RuleSize(Len(found_elements), max_workers, b)
        /\ Flatten(run_batches) = found_elements
        /\ ReportDescribesBatches

\* C17: with k the number of sessions in the pool, the descriptor list is
\* divided into min(total, k) contiguous batches, none empty, batch b of
\* total // k descriptors plus one for the first total mod k batches, and
\* batches_created and batch_sizes of the report describe these batches.
C17_BatchesOfPool ==
    test_results # NoReport =>
        /\ Len(run_batches) = Min(Len(found_elements), Len(driver_pool))
        /\ \A b \in DOMAIN run_batches :
              /\ Len(run_batches[b]) = RuleSize(Len(found_elements), Len(driver_pool), b)
              /\ Len(run_batches[b]) > 0
        /\ Flatten(run_batches) = found_elements
        /\ ReportDescribesBatches

\* three descriptors and max_workers = 2 with one session that started: one
\* batch of three
C17_Witness ==
    /\ test_results # NoReport
    /\ max_workers = 2
    /\ Len(driver_pool) = 1
    /\ test_results.concurrent_info.batch_sizes = <<3>>
    /\ test_results.concurrent_info.batches_created = 1

-----------------------------------------------------------------------------
(* Properties of the steps of find_clickable_elements.                     *)

\* the six structural discovery steps
StructuralSteps == {"selector", "pointer", "listener", "carousel", "shadow", "iframes"}

\* _scroll_to_bottom and _deep_scan_interactions have both returned among the
\* first n entries of the log
PreparationComplete(n) ==
    /\ \E a \in 1..n : step_log[a] = <<"scroll", "ok">>
    /\ \E b \in 1..n : step_log[b][1] = "deep_scan" /\ step_log[b][2] \in {"ok", "caught"}

\* C18: the scroll to the bottom and the deep interaction scan have both
\* returned before any structural discovery step (selector, pointer-cursor,
\* event-listener, carousel, shadow-DOM, iframe scan) starts.
C18_PreparationFirst ==
    /\ stepPc \in StructuralSteps \cup {"iframe"} => PreparationComplete(Len(step_log))
    /\ \A k \in DOMAIN step_log :
          step_log[k][1] \in StructuralSteps => PreparationComplete(k - 1)

\* a run on a page that grew while scrolled, with an exception caught inside
\* the deep scan, in which the carousel and the shadow-DOM step found elements
C18_Witness ==
    /\ stepPc = "returned"
    /\ {"carousel", "shadow"} \subseteq step_found
    /\ \E k \in DOMAIN step_log : step_log[k] = <<"deep_scan", "caught">>

\* the steps whose failure the claim is about: those that come after the
\* page load
DiscoverySteps ==
    {"scroll", "deep_scan", "selector", "carousel", "deep_crawler", "iframes", "shadow"}

\* C20: a failure of a single discovery step (scroll to the bottom, deep
\* interaction scan, selector scan, carousel extraction, DeepCrawler pass,
\* enumeration of the iframes, shadow-DOM scan) never aborts discovery: its
\* exception does not leave find_clickable_elements, which returns the
\* descriptors of the steps that found some.
C20_AsStated ==
    /\ \A k \in DOMAIN step_log :
          step_log[k][1] \in DiscoverySteps => step_log[k][2] # "raise"
    /\ stepPc = "returned" =>
          \A k \in DOMAIN step_log : step_log[k][2] = "found" => step_log[k][1] \in step_found

-----------------------------------------------------------------------------
(* Properties of the fallback scan of find_clickable_elements.             *)

\* the combined, de-duplicated result of the normal discovery steps
NormalResult ==
    FinalFilter([final |-> << >>, ids |-> {}],
                AdvancedDeduplication(clickable_elements)).final

DistinctFingerprints(infos) ==
    \A a, b \in DOMAIN infos : infos[a].unique_id = infos[b].unique_id => a = b

\* C19: the fallback scan runs if and only if the combined, de-duplicated
\* result of the normal discovery steps is empty; a non-empty result is returned
\* as it is; and the list the fallback scan builds holds no two descriptors
\* with the same fingerprint.
C19_FallbackIffEmpty ==
    /\ [][(discPc = "scan" /\ discPc' # "scan") =>
            /\ (discPc' = "fallback") <=> (final_elements' = << >>)
            /\ (discPc' = "returned") <=> (final_elements' # << >>)]_vars
    /\ [](discPc \in {"fallback", "returned"} =>
            /\ NormalResult # << >> => (discPc = "returned" /\ final_elements = NormalResult)
            /\ DistinctFingerprints(final_elements))

\* the normal steps found nothing that is kept and the fallback scan returned
\* a descriptor
C19_Witness ==
    /\ discPc = "returned"
    /\ NormalResult = << >>
    /\ final_elements # << >>

-----------------------------------------------------------------------------
(* Properties of the click, the observation and the classification of      *)
(* _test_element_click_with_driver, lines 181-248.                         *)

\* C21: when the pointer click is intercepted and the script click succeeds
\* the test goes on to the wait, the observation and the classification; when
\* the script click raises too the outcome is click_intercepted; when the
\* pointer click raises another exception the outcome is error and no script
\* click was tried; in the last two cases nothing was observed or classified.
C21_ClickPhase ==
    /\ (hist.pointer = "intercepted" /\ hist.script = "ok") =>
          /\ hist.clicks = 1
          /\ pc \in {"wait", "settle", "appended", "returned"}
          /\ Tested => \/ hist.observed
                       \/ hist.raised /\ result.click_status = "error"
    /\ (Tested /\ hist.pointer = "intercepted" /\ hist.script = "raised") =>
          /\ result.click_status = "click_intercepted"
          /\ hist.clicks = 0 /\ ~hist.observed
          /\ "dom_hash_after" \notin DOMAIN result
    /\ (Tested /\ hist.pointer = "raised") =>
          /\ result.click_status = "error"
          /\ hist.script = "none"
          /\ hist.clicks = 0 /\ ~hist.observed
          /\ "dom_hash_after" \notin DOMAIN result
    /\ (Tested /\ result.click_status = "click_intercepted") =>
          hist.pointer = "intercepted" /\ hist.script = "raised"

\* the pointer click was intercepted, the script click went through and the
\* click, which the page did not answer, was classified
C21_Witness ==
    /\ Tested
    /\ hist.pointer = "intercepted" /\ hist.script = "ok"
    /\ hist.clicks = 1
    /\ hist.observed
    /\ result.click_status = "dead_click"
    /\ "dom_hash_after" \in DOMAIN result

\* the page did nothing in answer to the click and the test itself wrote
\* nothing to the page
NoEffect ==
    /\ Tested /\ hist.clicks > 0 /\ hist.observed
    /\ hist.effects = {} /\ hist.late = {}
    /\ ~hist.normalized

\* C22 as stated: active_ui_change is assigned only when a modal or an expanded
\* dropdown that was absent before the click is present after it; an element
\* whose click has no effect, tested with such a node already open, is
\* classified dead_click.
C22_AsStated ==
    /\ (Tested /\ result.click_status = "active_ui_change") =>
          hist.overlay_before = "none" /\ page.overlay # "none"
    /\ (NoEffect /\ hist.overlay_before # "none") => result.click_status = "dead_click"

\* C23 as stated: for an outcome with URL and title unchanged, the status is
\* active_dom_change exactly when the recorded dom_hash_after differs from the
\* recorded dom_hash_before.
C23_AsStated ==
    ( /\ Tested /\ hist.observed
      /\ page.url = initial.url /\ page.title = initial.title )
    => ( result.click_status = "active_dom_change"
            <=> result.dom_hash_after # result.dom_hash_before )

\* C24 as stated: for an element whose click has no observable effect and is
\* classified dead_click, the reason is the suspicious one exactly when the
\* href or the onclick of the element matches the dead patterns; an element
\* with href "/about" or "/contact" and a real onclick gets the generic reason.
C24_AsStated ==
    (NoEffect /\ result.click_status = "dead_click") =>
        ( result.error_message = SuspiciousMessage
             <=> IsDeadClickByHref(NodeOf(batch[i])) )

\* C26 as stated: the url_before of every outcome is the target URL.
C26_AsStated ==
    \A k \in DOMAIN batch_results : batch_results[k].url_before = TargetUrl

\* C26 amended: while an element is located and clicked the session shows the
\* target URL, also when the click before navigated away; the url_before of an
\* outcome is the target URL, or it is empty and the status is error: the test
\* ended on an exception before the URL was read.
C26_SessionAtTarget ==
    /\ pc \in {"locate", "located", "click"} =>
          page.url = TargetUrl /\ initial.url = TargetUrl
    /\ \A k \in DOMAIN batch_results :
          \/ batch_results[k].url_before = TargetUrl
          \/ /\ batch_results[k].url_before = ""
             /\ batch_results[k].click_status = "error"

\* the first click navigated away and the second element was tested from the
\* target URL
C26_Witness ==
    /\ Len(batch_results) = 2
    /\ batch_results[1].click_status = "active_navigation"
    /\ batch_results[1].url_after = OtherUrl
    /\ batch_results[2].url_before = TargetUrl
    /\ "dom_hash_after" \in DOMAIN batch_results[2]

-----------------------------------------------------------------------------
(* Properties of the collection of the batches' outcomes, lines 1087-1095. *)

\* the outcome lists of the collected futures yielded first to k-th, one
\* after the other
RECURSIVE BlocksYielded(_, _)
BlocksYielded(fs, k) ==
    IF k = 0 THEN << >>
    ELSE LET ranked == {b \in DOMAIN fs : fs[b].taken = k /\ fs[b].state = "collected"}
         IN  BlocksYielded(fs, k - 1)
                 \o (IF ranked = {} THEN << >> ELSE fs[CHOOSE b \in ranked : TRUE].results)

\* as_completed yields the future of batch b in this step
YieldedNow(b) ==
    /\ b \in DOMAIN futures
    /\ futures[b].taken = 0
    /\ futures'[b].taken > 0

\* C25 as stated: the whole outcome lists of the batches are added to the
\* results list in the order in which the batches finished: the batch whose
\* list is added is the one that finished first among those not added yet.
C25_AsStated ==
    [][\A b \in 1..MaxSessions :
         (YieldedNow(b) /\ futures[b].state = "done") =>
             \A c \in DOMAIN futures :
                 futures[c].state = "done" => futures[c].stamp >= futures[b].stamp]_vars

\* C25 amended: the results list is at every moment the concatenation of the
\* whole outcome lists of the collected batches in the order in which
\* as_completed yielded them, each block in the element order of its batch,
\* and holds no outcome of a batch not collected yet; a batch that finished
\* after the iteration began is yielded when every batch that finished before
\* it has been yielded.
C25_BlocksInYieldOrder ==
    /\ [](test_results # NoReport =>
            /\ test_results.results = BlocksYielded(futures, Len(futures))
            /\ \A b \in DOMAIN futures :
                  \A k \in DOMAIN futures[b].results :
                      futures[b].results[k].element_info = run_batches[b][k])
    /\ [][\A b \in 1..MaxSessions :
             (YieldedNow(b) /\ ~futures[b].early) => futures[b].stamp = 1]_vars

\* two batches had finished when the iteration began; the block of the one
\* that finished last is in the report and the one that finished first waits
C25_Witness ==
    /\ runPc = "collect"
    /\ Len(futures) = 2
    /\ futures[1].state = "done" /\ futures[1].early /\ futures[1].stamp = 1
    /\ Len(futures[1].results) = 2
    /\ futures[2].state = "collected" /\ futures[2].taken = 1
    /\ test_results.results = futures[2].results
    /\ test_results.results # << >>

-----------------------------------------------------------------------------
(* Properties of the re-location of an element. *)

\* the order in which the strategies are said to be tried
ClaimedOrder ==
    <<"xpath", "css_selector", "tag_class_text", "id",
      "partial_text", "class_only", "data_testid", "aria_label">>

\* C27: the strategies run in the fixed order locator path, stable selector,
\* tag+class+text, DOM id, partial text, class only, data-testid, aria-label;
\* a strategy that fails, by an exception or by yielding no displayed element
\* (of the descriptor's tag for the stable selector), is followed by the next
\* applicable one; the element returned is the one the first successful
\* strategy yields, and nothing is returned only after every applicable
\* strategy has failed.
C27_FallbackChain ==
    LET Pos(s) == CHOOSE k \in DOMAIN ClaimedOrder : ClaimedOrder[k] = s
        ran == {find_log[k][1] : k \in DOMAIN find_log}
        failed == {find_log[k][1] :
                     k \in {j \in DOMAIN find_log : find_log[j][2] # "found"}}
        applicable == {s \in Range(ClaimedOrder) : Applicable(s, find_info)}
        returned == find_pc = Len(ClaimedOrder) + 2
        last == find_log[Len(find_log)]
        yields(el) ==
            /\ el.displayed
            /\ last[1] = "css_selector" => el.tag_name = find_info.tag_name
            /\ last[1] = "tag_class_text" =>
                   (find_info.text = "" \/ el.text = find_info.text)
        candidates ==
            IF last[1] \in {"xpath", "id", "data_testid", "aria_label"}
            THEN Slice(find_answer.elements, 0, 1)
            ELSE find_answer.elements
    IN  /\ \A j, k \in DOMAIN find_log :
              j < k => Pos(find_log[j][1]) < Pos(find_log[k][1])
        /\ ran \subseteq applicable
        /\ \A k \in DOMAIN find_log :
              find_log[k][2] = "found" => k = Len(find_log) /\ returned
        /\ find_log # << >> /\ last[2] = "none" =>
              \A k \in DOMAIN candidates : ~yields(candidates[k])
        /\ find_log # << >> /\ last[2] = "found" =>
              /\ \E k \in DOMAIN candidates :
                    /\ find_result = <<candidates[k]>>
                    /\ yields(candidates[k])
                    /\ \A j \in 1..(k - 1) : ~yields(candidates[j])
              /\ failed = {s \in applicable : Pos(s) < Pos(last[1])}
        /\ returned /\ find_result = << >> =>
              /\ failed = applicable
              /\ ran = failed
        /\ returned /\ find_result # << >> =>
              find_log # << >> /\ last[2] = "found"

\* a descriptor without a usable stable selector has been located by its
\* aria-label after the locator path raised and an earlier strategy yielded
\* only elements that are not displayed
C27_Witness ==
    /\ find_pc = Len(ClaimedOrder) + 2
    /\ find_result # << >>
    /\ Len(find_log) = 7
    /\ find_log[1] = <<"xpath", "raised">>
    /\ find_log[2] = <<"tag_class_text", "none">>
    /\ find_log[7] = <<"aria_label", "found">>
    /\ ~Applicable("css_selector", find_info)

-----------------------------------------------------------------------------
(* Properties of the special container and of the order of the final list. *)

\* C28: when advanced_deduplication keeps a descriptor whose class names hold
\* the marker of the special container, it keeps no descriptor whose locator
\* path is a strict extension of that descriptor's path, whatever the depth of
\* the extension and whatever its text and class.
C28_SpecialContainer ==
    discPc # "scan" =>
        \A a \in Range(deduplicated_elements) :
            Contains(a.class_names, SpecialContainerClass) =>
                \A d \in Range(clickable_elements) :
                    StartsWith(d.xpath, a.xpath) /\ d.xpath # a.xpath =>
                        d \notin Range(deduplicated_elements)

\* a special container has been kept and a descriptor two levels below it,
\* with another text and no class, has been discarded
C28_Witness ==
    /\ discPc # "scan"
    /\ \E a \in Range(deduplicated_elements), d \in Range(clickable_elements) :
          /\ Contains(a.class_names, SpecialContainerClass)
          /\ a.text = "Same Text"
          /\ StartsWith(d.xpath, a.xpath)
          /\ Count(d.xpath, "/") = Count(a.xpath, "/") + 2
          /\ d.text = ""
          /\ d.class_names = ""
          /\ d \notin Range(deduplicated_elements)

\* C29: the list the final filter builds is a subsequence of the unioned
\* list in that list's order, and holds for each fingerprint in it the
\* earliest descriptor of the unioned list with that fingerprint: the sort by
\* locator-path length inside advanced_deduplication does not show.
C29_FirstSeenOrder ==
    [][discPc = "scan" /\ discPc' # "scan" =>
         LET first(k) ==
                 CHOOSE j \in DOMAIN clickable_elements :
                     /\ clickable_elements[j].unique_id = final_elements'[k].unique_id
                     /\ \A h \in 1..(j - 1) :
                            clickable_elements[h].unique_id # final_elements'[k].unique_id
         IN  \A k \in DOMAIN final_elements' :
                 /\ \E j \in DOMAIN clickable_elements :
                        clickable_elements[j].unique_id = final_elements'[k].unique_id
                 /\ final_elements'[k] = clickable_elements[first(k)]
                 /\ \A later \in (k + 1)..Len(final_elements') : first(k) < first(later)
    ]_vars

\* a descriptor with the longer locator path was found first and the final
\* filter has kept it in front of the one with the shorter path
C29_Witness ==
    /\ discPc = "returned"
    /\ Len(clickable_elements) = 2
    /\ Len(clickable_elements[1].xpath) > Len(clickable_elements[2].xpath)
    /\ final_elements = clickable_elements

-----------------------------------------------------------------------------
(* Properties of the iframe scan. *)

\* C30: the session is at the top-level document whenever the next iframe
\* or the shadow-DOM scan is about to be processed, and no exception of an
\* iframe ends find_clickable_elements while iframes remain to be scanned.
C30_AsStated ==
    /\ stepPc \in {"iframe", "shadow"} => context = "top"
    /\ stepPc = "raised" => iframes = 0

-----------------------------------------------------------------------------
(* Properties of the page during discovery. *)

\* C33: from the end of the deep interaction scan to the end of the last
\* structural step the page is not loaded again: when the iframe scan and the
\* shadow-DOM scan run, the DOM still holds what the deep interaction scan
\* revealed.
C33_AsStated ==
    ( /\ stepPc \in {"iframes", "iframe", "shadow"}
      /\ \E k \in DOMAIN step_log : step_log[k] \in {<<"deep_scan", "ok">>, <<"deep_scan", "caught">>} )
    => revealed

-----------------------------------------------------------------------------
(* Properties of the sessions at the end of a run. *)

\* C34: when run_and_report has returned, the discovery session and every
\* session of the pool have been terminated.
C34_AsStated ==
    runPc = "returned" =>
        /\ driver # "open"
        /\ driver_pool # NoPool => Range(driver_pool) \subseteq quit_called

\* C35: quit() is called on a session of the pool only when no submitted
\* batch is running any more, on the success path and when the coordinating
\* thread left the with block by an exception while batches were in flight.
C35_TeardownAfterBatches ==
    (quit_called # {} \/ runPc \in {"close", "except", "print", "returned"}) =>
        \A b \in DOMAIN futures : futures[b].state # "running"

\* a submit raised while an earlier batch was running; that batch tested its
\* elements on its session before the pool was closed
C35_Witness ==
    /\ exc = "can't start new thread"
    /\ runPc = "returned"
    /\ Len(futures) = 1
    /\ Len(run_batches) = 2
    /\ futures[1].state = "done"
    /\ futures[1].results # << >>
    /\ futures[1].session \in quit_called

\* C36: a run whose discovery found no element and whose pool was created
\* returns a report without an error field: no batch and no future exist, the
\* counts and the percentages are zero and nothing is in results, and quit()
\* has been called on every session of the pool.
C36_EmptyRun ==
    ( /\ found_elements = << >>
      /\ driver_pool # NoPool
      /\ driver_pool # << >> )
    => /\ runPc # "divide" => (run_batches = << >> /\ futures = << >>)
       /\ runPc \notin {"shutdown", "except"}
       /\ RunReturned =>
             /\ ~IsErrorReport(report)
             /\ report.total_elements_found = 0
             /\ report.elements_tested = 0
             /\ report.active_clicks = 0
             /\ report.dead_clicks = 0
             /\ report.errors = 0
             /\ report.results = << >>
             /\ report.concurrent_info.batches_created = 0
             /\ report.summary.total_tested = 0
             /\ report.summary.active_percentage = 0
             /\ report.summary.dead_percentage = 0
             /\ report.summary.error_percentage = 0
             /\ Range(driver_pool) \subseteq quit_called

\* run_and_report has returned the report of a page without elements; the
\* pool held two sessions
C36_Witness ==
    /\ runPc = "returned"
    /\ found_elements = << >>
    /\ touched = {<<MainSession, CoordinatingThread, 0>>}
    /\ Len(driver_pool) = 2
    /\ ~IsErrorReport(report)
    /\ report.summary.total_tested = 0

-----------------------------------------------------------------------------
(* Properties of what advanced_deduplication removes. *)

\* C37: every descriptor advanced_deduplication removes has a descriptor left
\* in the output whose locator path is a strict prefix of its own; a parent
\* and its nested child are never both removed.
C37_AsStated ==
    discPc # "scan" =>
        \A d \in Range(clickable_elements) \ Range(deduplicated_elements) :
            \E a \in Range(deduplicated_elements) :
                StartsWith(d.xpath, a.xpath) /\ d.xpath # a.xpath


-----------------------------------------------------------------------------
(* The carousel normalisation before the click, lines 159-179.             *)

\* C38: a descriptor with the carousel flag whose node is in the document but
\* hidden, at each of the attempts to locate it, has the normalisation applied
\* and is not reported element_not_found; a descriptor without the flag never
\* has the normalisation applied.
C38_AsStated ==
    LET carousel == Get(batch[i], "is_carousel_element", FALSE)
    IN  /\ ( /\ Tested /\ carousel
             /\ dom = "hidden" /\ env.effects = 1 /\ hist.failed = LocateAttempts
             /\ ~hist.raised ) =>
                /\ hist.normalized
                /\ result.click_status # "element_not_found"
        /\ (Tested /\ ~carousel) => ~hist.normalized


-----------------------------------------------------------------------------
(* The end of the scroll phase, lines 592-604.                             *)

\* C39: on every page, a page that grows at each scroll to the bottom
\* included, the scroll phase of find_clickable_elements ends after finitely
\* many scrolls: the run leaves the load and scroll steps.
C39_AsStated == <>(stepPc \notin {"load", "scroll"})


-----------------------------------------------------------------------------
(* Properties of DeepCrawler.recursive_scan.                               *)

\* C31: the recursive scan ends on every page, a page whose iframe shows the
\* document that embeds it included, and no scan step runs at a recursion
\* depth above 2.
C31_Terminates ==
    /\ [](\A e \in deep_log : e.depth <= 2)
    /\ <>(deep_stack = << >> /\ deep_result \in {"returned", "raised"})

\* the crawl of a page whose top document embeds "inner", which embeds the
\* top document again, has returned after scans at the depths 0, 1 and 2
C31_Witness ==
    /\ deep_result = "returned"
    /\ deep_page["top"] = <<"inner">>
    /\ deep_page["inner"] = <<"top">>
    /\ {e.depth : e \in deep_log} = 0..2

\* C32: every step of a scan at depth d, the switch to one of its iframes and
\* its pointer and selector searches included, runs while the session shows
\* the frame the scan was started in.
C32_AsStated == \A e \in deep_log : e.at = e.started

====
